---------------------------- MODULE Spec2Model ----------------------------
(***************************************************************************)
(* A model of c4::yml::Tree (src/src/c4/yml/tree.cpp): the node store with *)
(* its intrusive free list, the hierarchy engine and the reference         *)
(* resolver.                                                               *)
(*                                                                         *)
(* A tree value is a record                                                *)
(*    [buf, cap, size, head, tail, oob]                                    *)
(* for m_buf, m_cap, m_size, m_free_head, m_free_tail; oob records that a  *)
(* store went outside m_buf (the store itself lands outside the node       *)
(* buffer and leaves every record of the buffer as it was).                *)
(* C4_ASSERT is compiled out (release build): assertions are not guards.   *)
(* Every operation of the code is an operator from tree values to tree     *)
(* values, written statement by statement; the actions apply them to the   *)
(* state variables.                                                        *)
(***************************************************************************)
EXTENDS Integers, Sequences, FiniteSets, TLC

VARIABLES m_buf, m_cap, m_size, m_free_head, m_free_tail, oob, op, args, pre,
          refs, frames, objs, heap, ub

vars ==
    <<m_buf, m_cap, m_size, m_free_head, m_free_tail, oob, op, args, pre, refs,
      frames, objs, heap, ub>>

-----------------------------------------------------------------------------
(* Bounds of the model *)

\* largest node capacity explored by the node-store specifications
MaxCap == 4
\* node capacity a duplicate may grow the tree to
DupCap == 6
\* largest tree a stepwise duplicate is called on
TermTree == 3
\* number of nodes the memory of the stepwise duplicate holds
TermSize == 6
\* largest node capacity and arena capacity of a tree object
MemCap == 2
MemArena == 2
\* number of buffers the allocator hands out in a run
MaxAllocs == 4

\* (size_t)-1; 0 - 1 wraps to it, as i - 1 does in _clear_range for i = 0
NONE == -1

\* sz ? sz : 16 in _claim
MinCap == 16

\* most nodes of a parsed document, the root not counted
MaxDoc == 4

\* most nodes of a parsed document of merges, the root not counted
MaxMergeDoc == 5

\* node capacity a document's tree is constructed with
DocCap == 6

\* most nodes of a parsed document without sequences, the root not counted
MaxKeyDoc == 5

\* most anchors and most aliases of a parsed document
MaxAnchors == 2
MaxAliases == 2

\* scalar text is a sequence of characters, so that sub(1) is Tail
Keys == {<<"x">>, <<"y">>}

\* the key given to the nodes of the node-store specifications
NodeKeys == {<<"x">>}
Vals == {<<"1">>}
Anchors == {<<"a">>, <<"b">>}

\* the document alphabet: an anchored pair has the key x, an alias pair the
\* key y, a map or a plain sequence in the root the key m
AnchoredKey == <<"x">>
AliasKey == <<"y">>
DefKey == <<"m">>

-----------------------------------------------------------------------------
(* NodeType bits, as a set of flags; NOTYPE is the empty set *)

NOTYPE == {}
VAL == {"VAL"}
KEY == {"KEY"}
MAP == {"MAP"}
SEQ == {"SEQ"}
KEYVAL == {"KEY", "VAL"}
KEYMAP == {"KEY", "MAP"}
KEYSEQ == {"KEY", "SEQ"}
KEYREF == {"KEYREF"}
VALREF == {"VALREF"}

\* NodeScalar: the scalar and the anchor span (clear() empties both)
NoScalar == [scalar |-> <<>>, anchor |-> <<>>]

Scalar(s) == [scalar |-> s, anchor |-> <<>>]

\* memset(m_buf + first, 0, ...): every field zero
ZeroNode ==
    [type |-> NOTYPE, key |-> NoScalar, val |-> NoScalar,
     parent |-> 0, first_child |-> 0, last_child |-> 0,
     prev_sibling |-> 0, next_sibling |-> 0]

EmptyTree ==
    [buf |-> <<>>, cap |-> 0, size |-> 0, head |-> NONE, tail |-> NONE,
     oob |-> FALSE]

\* the tree held by the state variables
Tree ==
    [buf |-> m_buf, cap |-> m_cap, size |-> m_size, head |-> m_free_head,
     tail |-> m_free_tail, oob |-> oob]

InBuf(T, i) == i \in DOMAIN T.buf

\* m_buf[i].f = v; a store outside the buffer does not reach any record
Put(T, i, f, v) ==
    IF InBuf(T, i) THEN [T EXCEPT !.buf[i][f] = v]
    ELSE [T EXCEPT !.oob = TRUE]

\* the read accessors
type(T, i) == T.buf[i].type
parent(T, i) == T.buf[i].parent
first_child(T, i) == T.buf[i].first_child
last_child(T, i) == T.buf[i].last_child
prev_sibling(T, i) == T.buf[i].prev_sibling
next_sibling(T, i) == T.buf[i].next_sibling
key(T, i) == T.buf[i].key.scalar
val(T, i) == T.buf[i].val.scalar

has_key(T, i) == "KEY" \in type(T, i)
has_val(T, i) == "VAL" \in type(T, i)
is_map(T, i) == "MAP" \in type(T, i)
is_seq(T, i) == "SEQ" \in type(T, i)
is_keyval(T, i) == KEYVAL \subseteq type(T, i)
is_key_ref(T, i) == "KEYREF" \in type(T, i)
is_val_ref(T, i) == "VALREF" \in type(T, i)
has_key_anchor(T, i) == T.buf[i].key.anchor # <<>>
has_val_anchor(T, i) == T.buf[i].val.anchor # <<>>
has_anchor(T, i, a) == T.buf[i].key.anchor = a \/ T.buf[i].val.anchor = a

-----------------------------------------------------------------------------
(* Node store *)

\* Tree::_clear (tree.hpp): type, key, val, parent and children; the sibling
\* fields carry the free list and are left alone
_clear(T, i) ==
    [T EXCEPT !.buf[i] =
        [@ EXCEPT !.type = NOTYPE, !.key = NoScalar, !.val = NoScalar,
                  !.parent = NONE, !.first_child = NONE, !.last_child = NONE]]

\* _clear_range that relinks the slots and leaves type, key and val alone
_clear_range_links_only(T, first, num) ==
    IF num = 0 THEN T
    ELSE [T EXCEPT !.buf =
            [i \in DOMAIN T.buf |->
                IF i >= first /\ i < first + num
                THEN [T.buf[i] EXCEPT
                        !.prev_sibling = i - 1,
                        !.next_sibling =
                            IF i = first + num - 1 THEN NONE ELSE i + 1]
                ELSE T.buf[i]]]

\* Tree::_clear_range
_clear_range(T, first, num) ==
    IF num = 0 THEN T
    ELSE [T EXCEPT !.buf =
            [i \in DOMAIN T.buf |->
                IF i >= first /\ i < first + num
                THEN [ZeroNode EXCEPT
                        !.parent = NONE, !.first_child = NONE,
                        !.last_child = NONE,
                        !.prev_sibling = i - 1,
                        !.next_sibling =
                            IF i = first + num - 1 THEN NONE ELSE i + 1]
                ELSE T.buf[i]]]

\* Tree::_free_list_add: add to the front of the free list
_free_list_add(T, i) ==
    LET T1 == [T EXCEPT !.buf[i] =
                  [@ EXCEPT !.parent = NONE, !.next_sibling = T.head,
                            !.prev_sibling = NONE]]
        T2 == IF T.head # NONE THEN Put(T1, T.head, "prev_sibling", i) ELSE T1
        T3 == [T2 EXCEPT !.head = i]
    IN  IF T3.tail = NONE THEN [T3 EXCEPT !.tail = i] ELSE T3

\* _rem_hierarchy without the update of the parent's last_child
_rem_hierarchy_keeps_last(T, i) ==
    LET ip == parent(T, i)
        T1 == IF ip # NONE /\ first_child(T, ip) = i
              THEN Put(T, ip, "first_child", next_sibling(T, i)) ELSE T
        T3 == IF prev_sibling(T1, i) # NONE
              THEN Put(T1, prev_sibling(T1, i), "next_sibling",
                       next_sibling(T1, i))
              ELSE T1
    IN  IF next_sibling(T3, i) # NONE
        THEN Put(T3, next_sibling(T3, i), "prev_sibling", prev_sibling(T3, i))
        ELSE T3

\* Tree::_rem_hierarchy
_rem_hierarchy(T, i) ==
    LET ip == parent(T, i)
        T1 == IF ip # NONE /\ first_child(T, ip) = i
              THEN Put(T, ip, "first_child", next_sibling(T, i)) ELSE T
        T2 == IF ip # NONE /\ last_child(T1, ip) = i
              THEN Put(T1, ip, "last_child", prev_sibling(T1, i)) ELSE T1
        T3 == IF prev_sibling(T2, i) # NONE
              THEN Put(T2, prev_sibling(T2, i), "next_sibling",
                       next_sibling(T2, i))
              ELSE T2
    IN  IF next_sibling(T3, i) # NONE
        THEN Put(T3, next_sibling(T3, i), "prev_sibling", prev_sibling(T3, i))
        ELSE T3

\* Tree::_free_list_rem
_free_list_rem(T, i) ==
    LET T1 == IF T.head = i THEN [T EXCEPT !.head = next_sibling(T, i)] ELSE T
    IN  _rem_hierarchy(T1, i)

\* Tree::_set_hierarchy
_set_hierarchy(T, ichild, iparent, iprev_sibling) ==
    LET T0 == [T EXCEPT !.buf[ichild] =
                  [@ EXCEPT !.parent = iparent, !.prev_sibling = NONE,
                            !.next_sibling = NONE]]
    IN  IF iparent = NONE THEN T0
        ELSE
        LET inext_sibling ==
                IF iprev_sibling # NONE THEN next_sibling(T0, iprev_sibling)
                ELSE first_child(T0, iparent)
            T1 == IF iprev_sibling # NONE
                  THEN Put(Put(T0, ichild, "prev_sibling", iprev_sibling),
                           iprev_sibling, "next_sibling", ichild)
                  ELSE T0
            T2 == IF inext_sibling # NONE
                  THEN Put(Put(T1, ichild, "next_sibling", inext_sibling),
                           inext_sibling, "prev_sibling", ichild)
                  ELSE T1
        IN  IF first_child(T2, iparent) = NONE
            THEN Put(Put(T2, iparent, "first_child", ichild),
                     iparent, "last_child", ichild)
            ELSE
            LET T3 == IF next_sibling(T2, ichild) = first_child(T2, iparent)
                      THEN Put(T2, iparent, "first_child", ichild) ELSE T2
            IN  IF prev_sibling(T3, ichild) = last_child(T3, iparent)
                THEN Put(T3, iparent, "last_child", ichild) ELSE T3

\* the pop of Tree::_claim (lines 310-326), the free list being non-empty
_claim_pop(T) ==
    LET ichild == T.head
        T1 == [T EXCEPT !.size = @ + 1, !.head = next_sibling(T, ichild)]
        T2 == IF T1.head = NONE THEN [T1 EXCEPT !.tail = NONE] ELSE T1
    IN  [t |-> _clear(T2, ichild), id |-> ichild]

\* Tree::_claim_root
_claim_root(T) ==
    LET c == _claim_pop(T)
    IN  _set_hierarchy(c.t, c.id, NONE, NONE)

\* Tree::reserve, the node part (cap > m_cap)
reserve(T, cap) ==
    IF cap <= T.cap THEN T
    ELSE
    LET T1 == IF T.head = NONE
              THEN [T EXCEPT !.head = T.cap, !.tail = cap]
              ELSE Put(T, T.tail, "next_sibling", T.cap)
        \* the new buffer: the old records copied, the rest not yet written
        T2 == [T1 EXCEPT !.buf =
                 [i \in 0..(cap - 1) |->
                     IF i < T.cap THEN T1.buf[i] ELSE ZeroNode],
               !.cap = cap]
        T3 == _clear_range(T2, T.cap, cap - T.cap)
    IN  IF T3.size = 0 THEN _claim_root(T3) ELSE T3

\* the capacity Tree::_claim asks for when the free list is empty
GrownCap(T) == IF 2 * T.cap = 0 THEN MinCap ELSE 2 * T.cap

\* Tree::_claim
_claim(T) ==
    IF T.head = NONE \/ T.cap = 0
    THEN _claim_pop(reserve(T, GrownCap(T)))
    ELSE _claim_pop(T)

\* Tree::clear
clear(T) ==
    LET T1 == [_clear_range(T, 0, T.cap) EXCEPT !.size = 0]
    IN  IF T.cap # 0
        THEN _claim_root([T1 EXCEPT !.head = 0, !.tail = T.cap])
        ELSE [T1 EXCEPT !.head = NONE, !.tail = NONE]

\* _release without _rem_hierarchy: the node stays linked to its siblings
_release_keeps_links(T, i) ==
    LET T1 == _clear(_free_list_add(T, i), i)
    IN  [T1 EXCEPT !.size = @ - 1]

\* Tree::_release
_release(T, i) ==
    LET T1 == _clear(_free_list_add(_rem_hierarchy(T, i), i), i)
    IN  [T1 EXCEPT !.size = @ - 1]

-----------------------------------------------------------------------------
(* Hierarchy engine *)

\* the chain first_child(n), next_sibling, ... of the loops
\*   for(i = first_child(n); i != NONE; i = next_sibling(i))
RECURSIVE Chain(_, _)
Chain(T, i) == IF i = NONE THEN <<>> ELSE <<i>> \o Chain(T, next_sibling(T, i))

Children(T, n) == Chain(T, first_child(T, n))

\* Tree::_copy_props (tree.hpp)
_copy_props(T, dst, src) ==
    [T EXCEPT !.buf[dst] =
        [@ EXCEPT !.type = T.buf[src].type, !.key = T.buf[src].key,
                  !.val = T.buf[src].val]]

\* Tree::_copy_props_wo_key (tree.hpp)
_copy_props_wo_key(T, dst, src) ==
    [T EXCEPT !.buf[dst] =
        [@ EXCEPT !.type = T.buf[src].type, !.val = T.buf[src].val]]

\* Tree::_swap_props
_swap_props(T, n, m) ==
    [T EXCEPT !.buf[n] = [@ EXCEPT !.type = T.buf[m].type,
                                   !.key = T.buf[m].key, !.val = T.buf[m].val],
              !.buf[m] = [@ EXCEPT !.type = T.buf[n].type,
                                   !.key = T.buf[n].key, !.val = T.buf[n].val]]

\* Tree::remove_children (tree.hpp): release the descendants, children first
RECURSIVE remove_children(_, _)
RECURSIVE remove_children_from(_, _, _)
remove_children_from(T, node, ich) ==
    IF ich = NONE THEN T
    ELSE
    LET T1 == remove_children(T, ich)
        next == next_sibling(T1, ich)
        T2 == _release(T1, ich)
    IN  remove_children_from(T2, node, next)

remove_children(T, node) == remove_children_from(T, node, first_child(T, node))

\* Tree::remove (tree.hpp)
remove(T, node) == _release(remove_children(T, node), node)

\* Tree::move(node, new_parent, after)
move(T, node, new_parent, after) ==
    _set_hierarchy(_rem_hierarchy(T, node), node, new_parent, after)

\* Tree::move(node, after)
move_sibling(T, node, after) ==
    LET T1 == _rem_hierarchy(T, node)
    IN  _set_hierarchy(T1, node, parent(T1, node), after)

\* Tree::duplicate(node, parent, after), a record [t, id]
RECURSIVE duplicate(_, _, _, _)
RECURSIVE duplicate_loop(_, _, _, _)
\* lines 718-721: the step of the loop, d the result of duplicate(i, copy, last)
duplicate_loop_next(d, i, copy) ==
    duplicate_loop(d.t, next_sibling(d.t, i), copy, d.id)

duplicate_loop(T, i, copy, last) ==
    IF i = NONE THEN T
    ELSE duplicate_loop_next(duplicate(T, i, copy, last), i, copy)

\* lines 717-723: the children, T the tree once the copy is in its place
duplicate_below(T, node, copy) ==
    [t |-> duplicate_loop(T, first_child(T, node), copy, NONE), id |-> copy]

\* duplicate that attaches the copy as the first child, whatever after is
duplicate_claimed_first(c, node, iparent, after) ==
    duplicate_below(_set_hierarchy(_copy_props(c.t, c.id, node), c.id,
                                   iparent, NONE),
                    node, c.id)

\* lines 714-715: c the result of _claim()
duplicate_claimed(c, node, iparent, after) ==
    duplicate_below(_set_hierarchy(_copy_props(c.t, c.id, node), c.id,
                                   iparent, after),
                    node, c.id)

duplicate(T, node, iparent, after) ==
    duplicate_claimed(_claim(T), node, iparent, after)

\* Tree::duplicate_children(node, parent, after), a record [t, id]
RECURSIVE duplicate_children_loop(_, _, _, _)
\* lines 754-757: the step of the loop, d the result of duplicate(i, parent,
\* prev)
duplicate_children_next(d, i, iparent) ==
    duplicate_children_loop(d.t, next_sibling(d.t, i), iparent, d.id)

duplicate_children_loop(T, i, iparent, prev) ==
    IF i = NONE THEN [t |-> T, id |-> prev]
    ELSE duplicate_children_next(duplicate(T, i, iparent, prev), i, iparent)

duplicate_children(T, node, iparent, after) ==
    duplicate_children_loop(T, first_child(T, node), iparent, after)

\* Tree::duplicate_contents
duplicate_contents(T, node, where) ==
    duplicate_children(_copy_props_wo_key(T, where, node), node, where, NONE).t


\* the loops of _swap_hierarchy and _copy_hierarchy that re-parent a chain
RECURSIVE SetParents(_, _, _, _)
SetParents(T, chain, skip, ip) ==
    IF chain = <<>> THEN T
    ELSE SetParents(IF Head(chain) \in skip THEN T
                    ELSE Put(T, Head(chain), "parent", ip),
                    Tail(chain), skip, ip)

\* std::swap(m_buf[i].f, m_buf[j].g)
SwapFields(T, i, f, j, g) ==
    LET x == T.buf[i][f]
        y == T.buf[j][g]
    IN  Put(Put(T, i, f, y), j, g, x)

\* Tree::_swap_hierarchy, lines 507-530: the parents' first and last child
_swap_in_parents(T, ia, ib) ==
    LET ipa == parent(T, ia)
        ipb == parent(T, ib)
    IN  IF ipa = ipb
        THEN IF \/ (first_child(T, ipa) = ib /\ last_child(T, ipa) = ia)
                \/ (first_child(T, ipa) = ia /\ last_child(T, ipa) = ib)
             THEN SwapFields(T, ipa, "first_child", ipa, "last_child")
             ELSE
             LET c1 == first_child(T, ipa) = ia
                 T1 == IF c1 THEN Put(T, ipa, "first_child", ib) ELSE T
                 c2 == last_child(T1, ipa) = ia
                 T2 == IF c2 THEN Put(T1, ipa, "last_child", ib) ELSE T1
                 changed == c1 \/ c2
                 T3 == IF first_child(T2, ipb) = ib /\ ~changed
                       THEN Put(T2, ipb, "first_child", ia) ELSE T2
             IN  IF last_child(T3, ipb) = ib /\ ~changed
                 THEN Put(T3, ipb, "last_child", ia) ELSE T3
        ELSE
        LET T1 == IF first_child(T, ipa) = ia
                  THEN Put(T, ipa, "first_child", ib) ELSE T
            T2 == IF last_child(T1, ipa) = ia
                  THEN Put(T1, ipa, "last_child", ib) ELSE T1
            T3 == IF first_child(T2, ipb) = ib
                  THEN Put(T2, ipb, "first_child", ia) ELSE T2
        IN  IF last_child(T3, ipb) = ib
            THEN Put(T3, ipb, "last_child", ia) ELSE T3

\* Tree::_swap_hierarchy, lines 534-600: the sibling links
_swap_siblings(T, ia, ib) ==
    IF /\ prev_sibling(T, ia) # ib /\ prev_sibling(T, ib) # ia
       /\ next_sibling(T, ia) # ib /\ next_sibling(T, ib) # ia
    THEN
        LET T1 == IF prev_sibling(T, ia) # NONE /\ prev_sibling(T, ia) # ib
                  THEN Put(T, prev_sibling(T, ia), "next_sibling", ib) ELSE T
            T2 == IF next_sibling(T1, ia) # NONE /\ next_sibling(T1, ia) # ib
                  THEN Put(T1, next_sibling(T1, ia), "prev_sibling", ib) ELSE T1
            T3 == IF prev_sibling(T2, ib) # NONE /\ prev_sibling(T2, ib) # ia
                  THEN Put(T2, prev_sibling(T2, ib), "next_sibling", ia) ELSE T2
            T4 == IF next_sibling(T3, ib) # NONE /\ next_sibling(T3, ib) # ia
                  THEN Put(T3, next_sibling(T3, ib), "prev_sibling", ia) ELSE T3
            T5 == SwapFields(T4, ia, "prev_sibling", ib, "prev_sibling")
        IN  SwapFields(T5, ia, "next_sibling", ib, "next_sibling")
    ELSE IF next_sibling(T, ia) = ib
    THEN
        LET T1 == IF prev_sibling(T, ia) # NONE
                  THEN Put(T, prev_sibling(T, ia), "next_sibling", ib) ELSE T
            T2 == IF next_sibling(T1, ib) # NONE
                  THEN Put(T1, next_sibling(T1, ib), "prev_sibling", ia) ELSE T1
            ns == next_sibling(T2, ib)
            T3 == Put(T2, ib, "prev_sibling", prev_sibling(T2, ia))
            T4 == Put(T3, ib, "next_sibling", ia)
            T5 == Put(T4, ia, "prev_sibling", ib)
        IN  Put(T5, ia, "next_sibling", ns)
    ELSE IF prev_sibling(T, ia) = ib
    THEN
        LET T1 == IF prev_sibling(T, ib) # NONE
                  THEN Put(T, prev_sibling(T, ib), "next_sibling", ia) ELSE T
            T2 == IF next_sibling(T1, ia) # NONE
                  THEN Put(T1, next_sibling(T1, ia), "prev_sibling", ib) ELSE T1
            ns == prev_sibling(T2, ib)
            T3 == Put(T2, ia, "prev_sibling", prev_sibling(T2, ib))
            T4 == Put(T3, ia, "next_sibling", ib)
            T5 == Put(T4, ib, "prev_sibling", ia)
        IN  Put(T5, ib, "next_sibling", ns)
    ELSE T  \* C4_NEVER_REACH

\* Tree::_swap_hierarchy, lines 606-626: the parent fields
_swap_parents(T, ia, ib) ==
    IF parent(T, ia) # ib /\ parent(T, ib) # ia
    THEN SwapFields(T, ia, "parent", ib, "parent")
    ELSE IF parent(T, ia) = ib /\ parent(T, ib) # ia
    THEN Put(Put(T, ia, "parent", parent(T, ib)), ib, "parent", ia)
    ELSE IF parent(T, ia) # ib /\ parent(T, ib) = ia
    THEN Put(Put(T, ib, "parent", parent(T, ia)), ia, "parent", ib)
    ELSE T  \* C4_NEVER_REACH

\* Tree::_swap_hierarchy
_swap_hierarchy(T, ia, ib) ==
    IF ia = ib THEN T
    ELSE
    LET T1 == SetParents(T, Children(T, ia), {ia, ib}, ib)
        T2 == SetParents(T1, Children(T1, ib), {ia, ib}, ia)
        T3 == _swap_in_parents(T2, ia, ib)
        T4 == SwapFields(T3, ia, "first_child", ib, "first_child")
        T5 == SwapFields(T4, ia, "last_child", ib, "last_child")
        T6 == _swap_siblings(T5, ia, ib)
    IN  _swap_parents(T6, ia, ib)

\* Tree::_copy_hierarchy
_copy_hierarchy(T, dst, src) ==
    LET prt == parent(T, src)
        T1 == SetParents(T, Children(T, src), {}, dst)
        T2 == IF prev_sibling(T1, src) # NONE
              THEN Put(T1, prev_sibling(T1, src), "next_sibling", dst) ELSE T1
        T3 == IF next_sibling(T2, src) # NONE
              THEN Put(T2, next_sibling(T2, src), "prev_sibling", dst) ELSE T2
        T4 == IF first_child(T3, prt) = src
              THEN Put(T3, prt, "first_child", dst) ELSE T3
        T5 == IF last_child(T4, prt) = src
              THEN Put(T4, prt, "last_child", dst) ELSE T4
    IN  [T5 EXCEPT !.buf[dst] =
            [@ EXCEPT !.parent = T5.buf[src].parent,
                      !.first_child = T5.buf[src].first_child,
                      !.last_child = T5.buf[src].last_child,
                      !.prev_sibling = T5.buf[src].prev_sibling,
                      !.next_sibling = T5.buf[src].next_sibling]]

\* Tree::_swap
_swap(T, n, m) ==
    LET tn == type(T, n)
        tm == type(T, m)
    IN  IF tn # NOTYPE /\ tm # NOTYPE
        THEN _swap_hierarchy(_swap_props(T, n, m), n, m)
        ELSE IF tn = NOTYPE /\ tm # NOTYPE
        THEN _free_list_add(
                _clear(_copy_hierarchy(
                          _free_list_rem(_copy_props(T, n, m), n), n, m), m), m)
        ELSE IF tn # NOTYPE /\ tm = NOTYPE
        THEN _free_list_add(
                _clear(_copy_hierarchy(
                          _free_list_rem(_copy_props(T, m, n), m), m, n), n), n)
        ELSE T  \* C4_NEVER_REACH

\* Tree::_do_reorder, a record [t, count, stop]; the node is at index count
\* once its own swap is done. A node or a count outside the buffer is an
\* access out of m_buf: it is recorded in oob and the walk is given up (stop)
RECURSIVE _do_reorder(_, _, _)
RECURSIVE _do_reorder_loop(_, _, _)
\* line 445, r the result of the recursive call of line 447
_do_reorder_next(r, count) ==
    IF r.stop THEN r
    ELSE _do_reorder_loop(r.t, next_sibling(r.t, count), r.count)

_do_reorder_loop(T, i, count) ==
    IF i = NONE THEN [t |-> T, count |-> count, stop |-> FALSE]
    ELSE _do_reorder_next(_do_reorder(T, i, count), count)

_do_reorder(T, node, count) ==
    IF ~InBuf(T, node) \/ ~InBuf(T, count)
    THEN [t |-> [T EXCEPT !.oob = TRUE], count |-> count, stop |-> TRUE]
    ELSE LET T1 == IF node # count THEN _swap(T, node, count) ELSE T
         IN  _do_reorder_loop(T1, first_child(T1, count), count + 1)

\* Tree::reorder
reorder(T) == _do_reorder(T, 0, 0).t


\* Tree::duplicate_children_no_rep, lines 795-808: the position of "after"
RECURSIVE PosIn(_, _, _)
PosIn(chain, x, icount) ==
    IF chain = <<>> THEN NONE
    ELSE IF Head(chain) = x THEN icount
    ELSE PosIn(Tail(chain), x, icount + 1)

\* lines 822-831: the first child of the parent with the key k, or NONE
RECURSIVE FirstWithKey(_, _, _)
FirstWithKey(T, chain, k) ==
    IF chain = <<>> THEN NONE
    ELSE IF key(T, Head(chain)) = k THEN Head(chain)
    ELSE FirstWithKey(T, Tail(chain), k)

\* lines 838 and 845: is the repetition replaced by the duplicate?
rep_is_replaced(after_pos, rep_pos) == after_pos # NONE /\ rep_pos < after_pos

\* Tree::duplicate_children_no_rep, lines 814-855: the body of the loop for
\* the source child i, a record [t, id] of the tree and the new prev
no_rep_step(T, i, iparent, prev, after_pos) ==
    LET ch == Children(T, iparent)
        rep == IF is_seq(T, iparent) THEN NONE
               ELSE FirstWithKey(T, ch, key(T, i))
        rep_pos == PosIn(ch, rep, 0)
        replaced == rep # NONE /\ rep_is_replaced(after_pos, rep_pos)
    IN  IF rep = NONE \/ replaced
        THEN duplicate(IF replaced THEN remove(T, rep) ELSE T, i, iparent,
                       prev)
        ELSE IF rep # prev
        THEN [t |-> move_sibling(T, rep, prev), id |-> rep]
        ELSE [t |-> T, id |-> prev]

\* Tree::duplicate_children_no_rep, lines 811-859: the loop, a record [t, id]
RECURSIVE no_rep_loop(_, _, _, _, _)
\* line 812: ++icount, i = next_sibling(i), d the result of the body
no_rep_next(d, i, iparent, after_pos) ==
    no_rep_loop(d.t, next_sibling(d.t, i), iparent, d.id, after_pos)

no_rep_loop(T, i, iparent, prev, after_pos) ==
    IF i = NONE THEN [t |-> T, id |-> prev]
    ELSE no_rep_next(no_rep_step(T, i, iparent, prev, after_pos), i, iparent,
                     after_pos)

duplicate_children_no_rep(T, node, iparent, after) ==
    LET after_pos == IF after # NONE
                     THEN PosIn(Children(T, iparent), after, 0) ELSE NONE
    IN  no_rep_loop(T, first_child(T, node), iparent, after, after_pos)

-----------------------------------------------------------------------------
(* Reference resolver *)

\* the key of a merge entry
MERGE == <<"<", "<">>

\* csubstr::sub(1)
sub1(s) == IF s = <<>> THEN <<>> ELSE Tail(s)

\* refdata
RefData(is_ref, node, parent_ref, parent_ref_sibling) ==
    [is_ref |-> is_ref, node |-> node, prev_anchor |-> NONE, target |-> NONE,
     parent_ref |-> parent_ref, parent_ref_sibling |-> parent_ref_sibling]

\* ReferenceResolver::count
RECURSIVE count(_, _)
RECURSIVE count_list(_, _)
count_list(T, ch) ==
    IF ch = <<>> THEN 0 ELSE count(T, Head(ch)) + count_list(T, Tail(ch))

count(T, n) ==
    (IF \/ is_key_ref(T, n) \/ is_val_ref(T, n)
        \/ has_key_anchor(T, n) \/ has_val_anchor(T, n) THEN 1 ELSE 0)
    + count_list(T, Children(T, n))

\* the test of line 932
is_ref_or_merge(T, n) ==
    \/ is_key_ref(T, n)
    \/ is_val_ref(T, n)
    \/ (has_key(T, n) /\ key(T, n) = MERGE)

\* ReferenceResolver::_store_anchors_and_refs: the records pushed for n and
\* below, and whether C4_NEVER_REACH was met
RECURSIVE _store_anchors_and_refs(_, _)
RECURSIVE _store_list(_, _)
_store_list(T, ch) ==
    IF ch = <<>> THEN [recs |-> <<>>, never |-> FALSE]
    ELSE LET a == _store_anchors_and_refs(T, Head(ch))
             b == _store_list(T, Tail(ch))
         IN  [recs |-> a.recs \o b.recs, never |-> a.never \/ b.never]

_store_anchors_and_refs(T, n) ==
    IF is_ref_or_merge(T, n) /\ is_seq(T, n)
    THEN [recs |-> [k \in DOMAIN Children(T, n) |->
                      RefData(TRUE, Children(T, n)[k], n, next_sibling(T, n))],
          never |-> FALSE]
    ELSE
    LET r1 == IF is_ref_or_merge(T, n) /\ has_val(T, n)
              THEN <<RefData(TRUE, n, NONE, NONE)>> ELSE <<>>
        never == is_ref_or_merge(T, n) /\ ~has_val(T, n)
        r2 == IF has_key_anchor(T, n) \/ has_val_anchor(T, n)
              THEN <<RefData(FALSE, n, NONE, NONE)>> ELSE <<>>
        below == _store_list(T, Children(T, n))
    IN  [recs |-> r1 \o r2 \o below.recs, never |-> never \/ below.never]

\* ReferenceResolver::store, lines 916-927: prev_anchor of record k (0-based)
\* is the index of the last anchor record before it
RECURSIVE LastAnchorBefore(_, _)
LastAnchorBefore(recs, k) ==
    IF k = 0 THEN NONE
    ELSE IF ~recs[k].is_ref THEN k - 1
    ELSE LastAnchorBefore(recs, k - 1)

\* ReferenceResolver::store
store(T) ==
    IF count(T, 0) = 0 THEN [recs |-> <<>>, never |-> FALSE]
    ELSE LET s == _store_anchors_and_refs(T, 0)
         IN  [recs |-> [k \in DOMAIN s.recs |->
                          [s.recs[k] EXCEPT
                              !.prev_anchor = LastAnchorBefore(s.recs, k - 1)]],
              never |-> s.never]

\* ReferenceResolver::lookup_: the walk along prev_anchor from record ra;
\* NONE stands for reaching C4_NEVER_REACH
RECURSIVE lookup_walk(_, _, _, _)
lookup_walk(T, recs, refname, ra) ==
    IF ra.prev_anchor = NONE THEN NONE
    ELSE LET nx == recs[ra.prev_anchor + 1]
         IN  IF has_anchor(T, nx.node, refname) THEN nx.node
             ELSE lookup_walk(T, recs, refname, nx)

\* lookup_ that starts the walk one anchor record too far
lookup_skips_nearest(T, recs, refnode, ra) ==
    IF ra.prev_anchor = NONE THEN NONE
    ELSE lookup_walk(T, recs, sub1(val(T, refnode)),
                     recs[ra.prev_anchor + 1])

\* lookup_ that takes any anchor record of the name, a later one included
lookup_any_anchor(T, recs, refnode, ra) ==
    LET hits == {k \in DOMAIN recs :
                    /\ ~recs[k].is_ref
                    /\ has_anchor(T, recs[k].node, sub1(val(T, refnode)))}
    IN  IF hits = {} THEN NONE
        ELSE recs[CHOOSE k \in hits : \A j \in hits : k <= j].node

\* ReferenceResolver::lookup_
lookup_(T, recs, refnode, ra) ==
    lookup_walk(T, recs, sub1(val(T, refnode)), ra)

\* ReferenceResolver::resolve: the records with their targets
resolve_refs(T) ==
    LET s == store(T)
        recs == [k \in DOMAIN s.recs |->
                    IF s.recs[k].is_ref
                    THEN [s.recs[k] EXCEPT
                            !.target = lookup_(T, s.recs, s.recs[k].node,
                                               s.recs[k])]
                    ELSE s.recs[k]]
    IN  [recs |-> recs,
         never |-> s.never \/ \E k \in DOMAIN recs :
                                 recs[k].is_ref /\ recs[k].target = NONE]

\* rem_anchor_ref (tree.hpp)
rem_anchor_ref(T, n) ==
    [T EXCEPT !.buf[n] =
        [@ EXCEPT !.key = [@ EXCEPT !.anchor = <<>>],
                  !.val = [@ EXCEPT !.anchor = <<>>],
                  !.type = @ \ (KEYREF \cup VALREF)]]

\* Tree::resolve, lines 1027-1029 and 1039: d the result of
\* duplicate_children_no_rep; the alias node is removed, and the cursor of a
\* merge sequence moves on
resolve_merged(d, rd, prev_parent_ref, prev_parent_ref_after) ==
    [t |-> remove(d.t, rd.node),
     ppr |-> IF rd.parent_ref # NONE THEN rd.parent_ref ELSE prev_parent_ref,
     ppra |-> IF rd.parent_ref # NONE THEN d.id ELSE prev_parent_ref_after]

\* Tree::resolve, lines 1013-1045: the body of the loop for the record rd,
\* a record of the tree, prev_parent_ref and prev_parent_ref_after
resolve_insert_step(T, rd, prev_parent_ref, prev_parent_ref_after) ==
    LET in_seq == rd.parent_ref # NONE
        merge == in_seq \/ (has_key(T, rd.node) /\ key(T, rd.node) = MERGE)
        p == IF in_seq THEN parent(T, rd.parent_ref) ELSE parent(T, rd.node)
        after == IF ~in_seq THEN prev_sibling(T, rd.node)
                 ELSE IF prev_parent_ref # rd.parent_ref THEN rd.parent_ref
                 ELSE prev_parent_ref_after
    IN  IF ~rd.is_ref
        THEN [t |-> T, ppr |-> prev_parent_ref, ppra |-> prev_parent_ref_after]
        ELSE IF merge
        THEN resolve_merged(duplicate_children_no_rep(T, rd.target, p, after),
                            rd, prev_parent_ref, prev_parent_ref_after)
        ELSE [t |-> duplicate_contents(T, rd.target, rd.node),
              ppr |-> prev_parent_ref, ppra |-> prev_parent_ref_after]

\* Tree::resolve, lines 1011-1046: insert the resolved references
RECURSIVE resolve_insert(_, _, _, _)
\* line 1011: the next record, r the result of the body
resolve_insert_next(r, recs) ==
    resolve_insert(r.t, Tail(recs), r.ppr, r.ppra)

resolve_insert(T, recs, prev_parent_ref, prev_parent_ref_after) ==
    IF recs = <<>> THEN T
    ELSE resolve_insert_next(resolve_insert_step(T, Head(recs),
                                                 prev_parent_ref,
                                                 prev_parent_ref_after),
                             recs)

\* Tree::resolve, lines 1049-1059: clear anchors and refs
RECURSIVE resolve_clear(_, _)
resolve_clear(T, recs) ==
    IF recs = <<>> THEN T
    ELSE
    LET rr == Head(recs)
        T1 == rem_anchor_ref(T, rr.node)
        T2 == IF rr.parent_ref # NONE /\ type(T1, rr.parent_ref) # NOTYPE
              THEN remove(T1, rr.parent_ref) ELSE T1
    IN  resolve_clear(T2, Tail(recs))

\* Tree::resolve, a record [t, recs, never]; on C4_NEVER_REACH in the
\* resolver's constructor the tree is as it was
resolve(T) ==
    IF T.size = 0 THEN [t |-> T, recs |-> <<>>, never |-> FALSE]
    ELSE
    LET rr == resolve_refs(T)
    IN  IF rr.never THEN [t |-> T, recs |-> rr.recs, never |-> TRUE]
        ELSE [t |-> resolve_clear(resolve_insert(T, rr.recs, NONE, NONE),
                                  rr.recs),
              recs |-> rr.recs, never |-> FALSE]

-----------------------------------------------------------------------------
(* Observations of a tree, safe on any buffer contents *)

\* at most fuel nodes of the chain i, next_sibling(i), ...
RECURSIVE ChainF(_, _, _)
ChainF(T, i, fuel) ==
    IF i = NONE \/ fuel = 0 \/ ~InBuf(T, i) THEN <<>>
    ELSE <<i>> \o ChainF(T, next_sibling(T, i), fuel - 1)

\* the same walk along prev_sibling
RECURSIVE ChainB(_, _, _)
ChainB(T, i, fuel) ==
    IF i = NONE \/ fuel = 0 \/ ~InBuf(T, i) THEN <<>>
    ELSE <<i>> \o ChainB(T, prev_sibling(T, i), fuel - 1)

Range(s) == {s[k] : k \in DOMAIN s}

Reverse(s) == [k \in DOMAIN s |-> s[Len(s) + 1 - k]]

\* the nodes reached from the root through first_child and next_sibling
RECURSIVE ReachFrom(_, _, _)
ReachFrom(T, R, fuel) ==
    LET more == {j \in DOMAIN T.buf :
                    \E n \in R : \/ first_child(T, n) = j
                                 \/ (n # 0 /\ next_sibling(T, n) = j)}
    IN  IF fuel = 0 \/ more \subseteq R THEN R
        ELSE ReachFrom(T, R \cup more, fuel - 1)

Live(T) == IF T.size = 0 \/ T.cap = 0 THEN {} ELSE ReachFrom(T, {0}, T.cap)

\* the slots reached from free_head along next_sibling
FreeWalk(T) == ChainF(T, T.head, T.cap + 1)

\* the children of n are a well-formed doubly-linked list
ChildrenOK(T, n) ==
    LET fc == first_child(T, n)
        lc == last_child(T, n)
        fw == ChainF(T, fc, T.cap + 1)
        bw == ChainB(T, lc, T.cap + 1)
    IN  IF fc = NONE THEN lc = NONE
        ELSE /\ InBuf(T, fc) /\ InBuf(T, lc)
             /\ prev_sibling(T, fc) = NONE
             /\ next_sibling(T, lc) = NONE
             /\ Len(fw) <= T.cap
             /\ Cardinality(Range(fw)) = Len(fw)
             /\ fw[Len(fw)] = lc
             /\ next_sibling(T, fw[Len(fw)]) = NONE
             /\ \A k \in DOMAIN fw : parent(T, fw[k]) = n
             /\ bw = Reverse(fw)

\* the hierarchy below the root is a tree of well-formed child lists
HierOK(T) ==
    /\ T.size >= 1 => (T.cap >= 1 /\ parent(T, 0) = NONE)
    /\ \A n \in Live(T) : ChildrenOK(T, n)

\* n and its descendants in pre-order (on a well-formed hierarchy)
RECURSIVE Preorder(_, _)
RECURSIVE PreorderList(_, _)
PreorderList(T, ch) ==
    IF ch = <<>> THEN <<>>
    ELSE Preorder(T, Head(ch)) \o PreorderList(T, Tail(ch))

Preorder(T, n) == <<n>> \o PreorderList(T, Children(T, n))

Subtree(T, n) == Range(Preorder(T, n))

RECURSIVE Depth(_, _)
Depth(T, n) == IF parent(T, n) = NONE THEN 0 ELSE 1 + Depth(T, parent(T, n))

\* what a reader sees of node n: depth and props
Content(T, n) ==
    [depth |-> Depth(T, n), type |-> type(T, n),
     key |-> T.buf[n].key, val |-> T.buf[n].val]

\* the pre-order sequence of (depth, type, key, val) from the root
PreorderContent(T) ==
    LET po == Preorder(T, 0)
    IN  [k \in DOMAIN po |-> Content(T, po[k])]

\* every node of the hierarchy but the root has been given a type
Typed(T) == \A n \in Live(T) \ {0} : type(T, n) # NOTYPE

-----------------------------------------------------------------------------
(* The state machine *)

NoPre == EmptyTree

SetTree(T) ==
    /\ m_buf' = T.buf
    /\ m_cap' = T.cap
    /\ m_size' = T.size
    /\ m_free_head' = T.head
    /\ m_free_tail' = T.tail
    /\ oob' = T.oob
    /\ UNCHANGED <<objs, heap, ub>>

\* an operation run from its call to its return: no duplicate is under way
Set(T) ==
    /\ frames = <<>>
    /\ SetTree(T)
    /\ frames' = frames

\* an operation that is not observed by a before/after claim
Step(name, T) ==
    /\ T.cap <= MaxCap
    /\ Set(T)
    /\ op' = name
    /\ args' = <<>>
    /\ pre' = NoPre
    /\ refs' = <<>>

\* The tree objects of a program and the buffers of the allocator. A
\* pointer is 0 (nullptr) or the index of a buffer in heap.
Objs == {"s", "t"}

\* a csubstr: a pointer into a buffer as [str, off], and a length
NullSpan == [str |-> 0, off |-> 0, len |-> 0]

\* the spans of a NodeData
SpanFields ==
    {"key.scalar", "key.tag", "key.anchor",
     "val.scalar", "val.tag", "val.anchor"}

NoSpans == [f \in SpanFields |-> NullSpan]

NoArena == [str |-> 0, len |-> 0]

\* the allocator before the first allocate
NoHeap == [live |-> <<>>, count |-> 0, twice |-> FALSE, bad |-> FALSE]

\* a name with no object: not constructed yet, or destroyed
Unborn ==
    [life |-> "none", ptr |-> 0, T |-> EmptyTree, sp |-> <<>>,
     arena |-> NoArena, pos |-> 0, garbage |-> FALSE]

\* Tree::Tree(Allocator)
Init ==
    /\ m_buf = EmptyTree.buf
    /\ m_cap = 0
    /\ m_size = 0
    /\ m_free_head = NONE
    /\ m_free_tail = NONE
    /\ oob = FALSE
    /\ op = "init"
    /\ args = <<>>
    /\ pre = NoPre
    /\ refs = <<>>
    /\ frames = <<>>
    /\ objs = [o \in Objs |-> Unborn]
    /\ heap = NoHeap
    /\ ub = FALSE

\* the places a caller can name for an insertion below p
Afters(T, p) == {NONE} \cup Range(Children(T, p))

\* reserve(cap), cap > m_cap
Reserve ==
    \E c \in 1..MaxCap :
        /\ c > m_cap
        /\ HierOK(Tree)
        /\ Step("reserve", reserve(Tree, c))

\* the first reserve: Tree(node_capacity, arena_capacity, Allocator)
ReserveFirst ==
    \E c \in 1..MaxCap :
        /\ m_cap = 0
        /\ Step("reserve", reserve(Tree, c))

\* insert_child(parent, after): _claim, then _set_hierarchy
InsertChild ==
    /\ m_size >= 1
    /\ HierOK(Tree)
    /\ \E p \in Live(Tree) : \E a \in Afters(Tree, p) :
          /\ is_map(Tree, p)
          /\ LET c == _claim(Tree)
             IN  Step("insert", _set_hierarchy(c.t, c.id, p, a))

\* to_map(node, flags)
to_map(T, n) ==
    [T EXCEPT !.buf[n] = [@ EXCEPT !.type = MAP, !.key = NoScalar,
                                   !.val = NoScalar]]

\* to_map(node, key, flags)
to_keymap(T, n, k) ==
    [T EXCEPT !.buf[n] = [@ EXCEPT !.type = KEYMAP, !.key = Scalar(k),
                                   !.val = NoScalar]]

\* to_keyval(node, key, val, flags)
to_keyval(T, n, k, v, more) ==
    [T EXCEPT !.buf[n] = [@ EXCEPT !.type = KEYVAL \cup more,
                                   !.key = Scalar(k), !.val = Scalar(v)]]

\* the root becomes a map
ToMap ==
    /\ m_size >= 1
    /\ type(Tree, 0) = NOTYPE
    /\ first_child(Tree, 0) = NONE
    /\ Step("to_map", to_map(Tree, 0))

\* a fresh child of a map becomes a key-value pair or a keyed map
ToKeyVal ==
    /\ HierOK(Tree)
    /\ \E n \in Live(Tree) \ {0} : \E k \in NodeKeys : \E v \in Vals :
          /\ type(Tree, n) = NOTYPE
          /\ first_child(Tree, n) = NONE
          /\ Step("to_keyval", to_keyval(Tree, n, k, v, {}))

ToKeyMap ==
    /\ HierOK(Tree)
    /\ \E n \in Live(Tree) \ {0} : \E k \in NodeKeys :
          /\ type(Tree, n) = NOTYPE
          /\ first_child(Tree, n) = NONE
          /\ Step("to_keymap", to_keymap(Tree, n, k))

\* remove(node)
Remove ==
    /\ HierOK(Tree)
    /\ \E n \in Live(Tree) \ {0} : Step("remove", remove(Tree, n))

\* duplicate(node, parent, after), the parent outside the node's subtree
Duplicate ==
    /\ HierOK(Tree)
    /\ \E n \in Live(Tree) \ {0} : \E p \in Live(Tree) \ Subtree(Tree, n) :
          \E a \in Afters(Tree, p) :
            /\ is_map(Tree, p)
            /\ m_size + Cardinality(Subtree(Tree, n)) <= MaxCap
            /\ Step("duplicate", duplicate(Tree, n, p, a).t)

\* duplicate_children(node, parent, after)
DuplicateChildren ==
    /\ HierOK(Tree)
    /\ \E n \in Live(Tree) : \E p \in Live(Tree) \ Subtree(Tree, n) :
          \E a \in Afters(Tree, p) :
            /\ first_child(Tree, n) # NONE
            /\ is_map(Tree, p)
            /\ m_size + Cardinality(Subtree(Tree, n)) - 1 <= MaxCap
            /\ Step("duplicate_children", duplicate_children(Tree, n, p, a).t)

\* move(node, new_parent, after)
Move ==
    /\ HierOK(Tree)
    /\ \E n \in Live(Tree) \ {0} : \E p \in Live(Tree) \ Subtree(Tree, n) :
          \E a \in Afters(Tree, p) \ {n} :
            /\ is_map(Tree, p)
            /\ Step("move", move(Tree, n, p, a))

\* clear()
Clear ==
    /\ m_cap >= 1
    /\ Set(clear(Tree))
    /\ op' = "clear"
    /\ args' = <<>>
    /\ pre' = Tree
    /\ refs' = <<>>

\* reorder(); the tree before the call is kept for the before/after claims
Reorder ==
    /\ m_size >= 1
    /\ HierOK(Tree)
    /\ Typed(Tree)
    /\ Set(reorder(Tree))
    /\ op' = "reorder"
    /\ args' = <<>>
    /\ pre' = Tree
    /\ refs' = <<>>

\* every operation of the node store and the hierarchy engine
Next ==
    \/ Reserve
    \/ InsertChild
    \/ ToMap
    \/ ToKeyVal
    \/ ToKeyMap
    \/ Remove
    \/ Duplicate
    \/ DuplicateChildren
    \/ Move
    \/ Clear
    \/ Reorder

Spec == Init /\ [][Next]_vars

\* claim, attach, type, move, duplicate and remove on a tree constructed
\* with a capacity
NextHier ==
    \/ ReserveFirst
    \/ InsertChild
    \/ ToMap
    \/ ToKeyVal
    \/ ToKeyMap
    \/ Remove
    \/ Duplicate
    \/ DuplicateChildren
    \/ Move

SpecHier == Init /\ [][NextHier]_vars

\* the same operations, and reorder
NextReorder == NextHier \/ Reorder

SpecReorder == Init /\ [][NextReorder]_vars


-----------------------------------------------------------------------------
(* Documents: the parser's calls, then resolve() *)

\* append_child(parent) (tree.hpp): _claim, then _set_hierarchy at the end
append_child(T, p) ==
    LET c == _claim(T)
    IN  [t |-> _set_hierarchy(c.t, c.id, p, last_child(c.t, p)), id |-> c.id]

\* to_val(node, val, flags)
to_val(T, n, v, more) ==
    [T EXCEPT !.buf[n] = [@ EXCEPT !.type = VAL \cup more, !.key = NoScalar,
                                   !.val = Scalar(v)]]

\* to_seq(node, key, flags)
to_keyseq(T, n, k) ==
    [T EXCEPT !.buf[n] = [@ EXCEPT !.type = KEYSEQ, !.key = Scalar(k),
                                   !.val = NoScalar]]

\* set_val_anchor(node, anchor) (tree.hpp); the empty anchor is no anchor
set_val_anchor(T, n, a) == [T EXCEPT !.buf[n].val.anchor = a]

\* the text the parser reads for the scalar of node n: one per node
StampChars == <<"0", "1", "2", "3", "4", "5", "6", "7", "8", "9">>

Stamp(n) == <<StampChars[n + 1]>>

\* the text of an alias to the anchor a
Star(a) == <<"*">> \o a

DocStep(name, T) ==
    /\ Set(T)
    /\ op' = name
    /\ args' = <<>>
    /\ pre' = NoPre
    /\ refs' = <<>>

\* the parser is at work: on a document of any kind (op = "parse"), on one
\* of plain pairs, anchored maps and merges only (op = "parse_merge"), or on
\* one of pairs, maps, aliases and merges without sequences
\* (op = "parse_keys")
Parsing ==
    \/ op = "parse" /\ m_size <= MaxDoc
    \/ op = "parse_merge" /\ m_size <= MaxMergeDoc
    \/ op = "parse_keys" /\ m_size <= MaxKeyDoc

NumAnchors(T) == Cardinality({n \in DOMAIN T.buf : has_val_anchor(T, n)})

NumAliases(T) == Cardinality({n \in DOMAIN T.buf : is_val_ref(T, n)})

\* the anchors the parser may still read: none, or any while there is room
AnchorChoice(T) ==
    {<<>>} \cup (IF NumAnchors(T) < MaxAnchors THEN Anchors ELSE {})

AliasChoice(T) == IF NumAliases(T) < MaxAliases THEN Anchors ELSE {}

\* the containers the parser appends to: the root map, and the entry it
\* read last when that is a container
Open(T) ==
    {0} \cup {n \in {last_child(T, 0)} \ {NONE} : is_map(T, n) \/ is_seq(T, n)}

\* Tree(node_capacity, arena_capacity); the document is a map
DocBegin ==
    /\ op = "init"
    /\ DocStep("parse", to_map(reserve(Tree, DocCap), 0))

\* "k: v" or "k: &a v" in a map
ParseKeyVal ==
    /\ Parsing
    /\ \E p \in Open(Tree) : \E k \in Keys : \E a \in AnchorChoice(Tree) :
          /\ is_map(Tree, p)
          /\ a # <<>> => (k = AnchoredKey /\ op \in {"parse", "parse_keys"})
          /\ LET c == append_child(Tree, p)
             IN  DocStep(op,
                     set_val_anchor(to_keyval(c.t, c.id, k, Stamp(c.id), {}),
                                    c.id, a))

\* "y: *a" or "<<: *a" in the root map
ParseAlias ==
    /\ Parsing
    /\ \E k \in {AliasKey, MERGE} : \E a \in AliasChoice(Tree) :
          /\ k = AliasKey => op \in {"parse", "parse_keys"}
          /\ LET c == append_child(Tree, 0)
             IN  DocStep(op, to_keyval(c.t, c.id, k, Star(a), VALREF))

\* "m: &a {" in the root map
ParseMap ==
    /\ Parsing
    /\ \E a \in AnchorChoice(Tree) \ {<<>>} :
          LET c == append_child(Tree, 0)
          IN  DocStep(op,
                  set_val_anchor(to_keymap(c.t, c.id, DefKey), c.id, a))

\* "<<: [" or "m: [" in the root map
ParseSeq ==
    /\ Parsing
    /\ \E k \in {DefKey, MERGE} :
          /\ k = DefKey => op = "parse"
          /\ LET c == append_child(Tree, 0)
             IN  DocStep(op, to_keyseq(c.t, c.id, k))

\* "*a" in a sequence
ParseSeqAlias ==
    /\ Parsing
    /\ \E p \in Open(Tree) : \E a \in AliasChoice(Tree) :
          /\ is_seq(Tree, p)
          /\ key(Tree, p) = MERGE
          /\ LET c == append_child(Tree, p)
             IN  DocStep(op, to_val(c.t, c.id, Star(a), VALREF))

\* "v" or "&a v" in a sequence
ParseSeqVal ==
    /\ Parsing
    /\ \E p \in Open(Tree) : \E a \in AnchorChoice(Tree) :
          /\ is_seq(Tree, p)
          /\ key(Tree, p) # MERGE
          /\ LET c == append_child(Tree, p)
             IN  DocStep(op,
                     set_val_anchor(to_val(c.t, c.id, Stamp(c.id), {}),
                                    c.id, a))

\* no alias of the document names an anchor on one of its own ancestors
\* (resolve() does not return on such a document)
NoSelfRef(T, recs) ==
    \A k \in DOMAIN recs :
        recs[k].is_ref /\ recs[k].target # NONE
            => recs[k].node \notin Subtree(T, recs[k].target)

\* Tree(node_capacity, arena_capacity) for a document of merges
MergeBegin ==
    /\ op = "init"
    /\ DocStep("parse_merge", to_map(reserve(Tree, DocCap), 0))

\* duplicate_children_no_rep(node, parent, after) called on the root map
\* with one of its maps as the source
NoRep ==
    /\ op = "parse_merge"
    /\ \E src \in Range(Children(Tree, 0)) : \E a \in Afters(Tree, 0) :
          /\ is_map(Tree, src)
          /\ first_child(Tree, src) # NONE
          /\ Set(duplicate_children_no_rep(Tree, src, 0, a).t)
          /\ op' = "no_rep"
          /\ args' = <<src, 0, a>>
          /\ pre' = Tree
          /\ refs' = <<>>

\* resolve()
Resolve ==
    /\ op \in {"parse", "parse_merge", "parse_keys"}
    /\ LET rr == resolve_refs(Tree)
       IN  /\ NoSelfRef(Tree, rr.recs)
           /\ \E r \in {resolve(Tree)} :
                  /\ Set(r.t)
                  /\ op' = IF r.never THEN "abort" ELSE "resolve"
                  /\ args' = <<>>
                  /\ pre' = Tree
                  /\ refs' = r.recs

NextDoc ==
    \/ DocBegin
    \/ ParseKeyVal
    \/ ParseAlias
    \/ ParseMap
    \/ ParseSeq
    \/ ParseSeqAlias
    \/ ParseSeqVal
    \/ Resolve

SpecDoc == Init /\ [][NextDoc]_vars

NextMerge ==
    \/ MergeBegin
    \/ ParseKeyVal
    \/ ParseAlias
    \/ ParseMap
    \/ ParseSeq
    \/ ParseSeqAlias
    \/ Resolve
    \/ NoRep

SpecMerge == Init /\ [][NextMerge]_vars


-----------------------------------------------------------------------------
(* Observations used by the claims *)

\* a pre-order walk from n that stops after fuel levels and fuel siblings,
\* as a sequence of [id, depth]
RECURSIVE WalkF(_, _, _, _)
RECURSIVE WalkListF(_, _, _, _)
WalkListF(T, ch, d, fuel) ==
    IF ch = <<>> THEN <<>>
    ELSE WalkF(T, Head(ch), d, fuel) \o WalkListF(T, Tail(ch), d, fuel)

WalkF(T, n, d, fuel) ==
    IF fuel = 0 \/ ~InBuf(T, n) THEN <<>>
    ELSE <<[id |-> n, depth |-> d]>>
         \o WalkListF(T, ChainF(T, first_child(T, n), fuel), d + 1, fuel - 1)

\* the walk from the root
Walk(T) == IF T.cap = 0 THEN <<>> ELSE WalkF(T, 0, 0, T.cap + 1)

WalkIds(T) == [k \in DOMAIN Walk(T) |-> Walk(T)[k].id]

\* (depth, type, key, val) along the walk from the root
WalkContent(T) ==
    [k \in DOMAIN Walk(T) |->
        [depth |-> Walk(T)[k].depth, type |-> type(T, Walk(T)[k].id),
         key |-> T.buf[Walk(T)[k].id].key, val |-> T.buf[Walk(T)[k].id].val]]

\* the slot i is free: of no type and on the free list
IsFree(T, i) == type(T, i) = NOTYPE /\ i \in Range(FreeWalk(T))

\* the (key, val) pairs of the children of n, in order
Entries(T, n) ==
    [k \in DOMAIN Children(T, n) |->
        [key |-> key(T, Children(T, n)[k]), val |-> val(T, Children(T, n)[k])]]

KeysOf(T, n) == {key(T, c) : c \in Range(Children(T, n))}

\* find_child(node, name)
find_child(T, n, k) == FirstWithKey(T, Children(T, n), k)

DistinctKeys(T, n) ==
    Cardinality(KeysOf(T, n)) = Len(Children(T, n))

\* the records of the aliases
RefRecs(recs) == {k \in DOMAIN recs : recs[k].is_ref}

-----------------------------------------------------------------------------
(* Claims *)

\* C1: in every state reached by reserve, claim, remove, duplicate, move,
\* clear and reorder, the number of slots reached from free_head along
\* next_sibling plus size equals capacity.
C1_FreeListCount == Len(FreeWalk(Tree)) + m_size = m_cap

\* C2: after any sequence of claim + _set_hierarchy, move, duplicate,
\* duplicate_children and remove, every node with children has a first child
\* without prev_sibling, a last child without next_sibling, an acyclic
\* next_sibling chain from the first to the last child whose elements all
\* have the node as parent, and a prev_sibling chain that is its reverse.
C2_HierarchyWellFormed == HierOK(Tree)

\* a node with several children, after a node was removed from the tree
C2_Witness ==
    /\ op = "remove"
    /\ m_size >= 3
    /\ \E n \in Live(Tree) : first_child(Tree, n) # last_child(Tree, n)

\* C3: after reorder() on a tree of typed nodes, the pre-order walk from the
\* root visits exactly the handles 0, 1, ..., size-1 in increasing order and
\* every slot in [size, capacity) is free.
C3_ReorderIsPreorder ==
    op = "reorder" =>
        /\ WalkIds(Tree) = [k \in 1..m_size |-> k - 1]
        /\ \A i \in m_size..(m_cap - 1) : IsFree(Tree, i)

\* C4: reorder() changes only the numbering: the pre-order sequence of
\* (depth, type, key, val) and size are the same before and after.
C4_ReorderKeepsContent ==
    op = "reorder" =>
        /\ WalkContent(Tree) = WalkContent(pre)
        /\ m_size = pre.size

\* C5: after resolve() on a document all of whose aliases have an earlier
\* anchor, no node reachable from the root has KEYREF or VALREF set and none
\* carries a key or value anchor.
C5_NoRefsNoAnchors ==
    op = "resolve" =>
        \A n \in Range(WalkIds(Tree)) :
            /\ ~is_key_ref(Tree, n)
            /\ ~is_val_ref(Tree, n)
            /\ ~has_key_anchor(Tree, n)
            /\ ~has_val_anchor(Tree, n)

\* the document has one alias, a merge "<<: *d" in the root map, and the
\* entries of the root other than the merge have distinct keys
OneMerge(T, recs) ==
    /\ Cardinality(RefRecs(recs)) = 1
    /\ \A k \in RefRecs(recs) :
          /\ recs[k].parent_ref = NONE
          /\ key(T, recs[k].node) = MERGE
          /\ parent(T, recs[k].node) = 0
    /\ Cardinality(KeysOf(T, 0) \ {MERGE}) = Len(Children(T, 0)) - 1

\* C6: when resolve() materializes a merge "<<: *d" in a map M, every key
\* M holds explicitly, before or after the merge, keeps its explicit value,
\* and the keys of d that M does not hold are added with d's values.
C6_ExplicitKeysWin ==
    (op = "resolve" /\ OneMerge(pre, refs)) =>
        \A r \in RefRecs(refs) :
            /\ \A e \in Range(Children(pre, 0)) \ {refs[r].node} :
                  /\ find_child(Tree, 0, key(pre, e)) # NONE
                  /\ val(Tree, find_child(Tree, 0, key(pre, e))) = val(pre, e)
            /\ \A c \in Range(Children(pre, refs[r].target)) :
                  key(pre, c) \notin KeysOf(pre, 0) =>
                      /\ find_child(Tree, 0, key(pre, c)) # NONE
                      /\ val(Tree, find_child(Tree, 0, key(pre, c)))
                            = val(pre, c)

\* the last node before n in pre-order that has the anchor a, or NONE
RECURSIVE LastAnchored(_, _, _, _)
LastAnchored(T, po, n, a) ==
    LET k == PosIn(po, n, 1)
        before == {j \in 1..(k - 1) : has_anchor(T, po[j], a)}
    IN  IF before = {} THEN NONE
        ELSE po[CHOOSE j \in before : \A i \in before : i <= j]

\* C7: the target of every alias record is the node latest in pre-order
\* among the nodes that precede the alias in pre-order and carry an anchor
\* equal to the alias text after the leading '*'.
C7_TargetIsMostRecentAnchor ==
    op \in {"resolve", "abort"} =>
        \A k \in RefRecs(refs) :
            refs[k].target =
                LastAnchored(pre, Preorder(pre, 0), refs[k].node,
                             sub1(val(pre, refs[k].node)))

\* an alias was resolved to the later of two nodes with the same anchor
C7_Witness ==
    /\ op = "resolve"
    /\ \E k \in RefRecs(refs) : \E n \in DOMAIN pre.buf :
          /\ n # refs[k].target
          /\ n < refs[k].target
          /\ has_anchor(pre, n, sub1(val(pre, refs[k].node)))

\* every alias of the document is a plain value alias: no merge key, no
\* merge sequence
OnlyValueAliases(T, recs) ==
    /\ RefRecs(recs) # {}
    /\ \A k \in RefRecs(recs) :
          /\ recs[k].parent_ref = NONE
          /\ key(T, recs[k].node) # MERGE

\* type, value and children of a node, as a reader sees them: the kind
\* without the KEY bit, the scalar, and the subtree below
Kind(T, n) == type(T, n) \ (KEY \cup KEYREF \cup VALREF)

RECURSIVE Below(_, _)
Below(T, n) ==
    [k \in DOMAIN Children(T, n) |->
        [kind |-> Kind(T, Children(T, n)[k]),
         key |-> key(T, Children(T, n)[k]),
         val |-> val(T, Children(T, n)[k]),
         below |-> Below(T, Children(T, n)[k])]]

\* C8: when resolve() materializes a plain value alias, the alias node keeps
\* its key and still reports having it, and its type, value and children
\* are copies of the target's.
C8_ValueAliasKeepsKey ==
    (op = "resolve" /\ OnlyValueAliases(pre, refs)) =>
        \A k \in RefRecs(refs) :
            LET n == refs[k].node
                t == refs[k].target
            IN  /\ key(Tree, n) = key(pre, n)
                /\ has_key(Tree, n)
                /\ Kind(Tree, n) = Kind(Tree, t)
                /\ val(Tree, n) = val(Tree, t)
                /\ Below(Tree, n) = Below(Tree, t)

\* the document has one merge sequence "<<: [*a, ...]" in the root map and
\* no other alias; the other entries of the root have distinct keys and so
\* have the entries of every target
OneMergeSeq(T, recs) ==
    /\ RefRecs(recs) # {}
    /\ \A k \in RefRecs(recs) :
          /\ recs[k].parent_ref # NONE
          /\ \A j \in RefRecs(recs) : recs[j].parent_ref = recs[k].parent_ref
          /\ parent(T, recs[k].parent_ref) = 0
          /\ DistinctKeys(T, recs[k].target)
    /\ Cardinality(KeysOf(T, 0) \ {MERGE}) = Len(Children(T, 0)) - 1

\* the value the merge sequence gives the key kk: the value of the first
\* target, in the order of the sequence, that has it
RECURSIVE FirstTargetVal(_, _, _)
FirstTargetVal(T, recs, kk) ==
    IF recs = <<>> THEN <<>>
    ELSE IF Head(recs).is_ref /\ find_child(T, Head(recs).target, kk) # NONE
    THEN val(T, find_child(T, Head(recs).target, kk))
    ELSE FirstTargetVal(T, Tail(recs), kk)

\* C9: when resolve() materializes a merge sequence "<<: [*a, *b, ...]" in a
\* map M, a key that several targets have takes the value of the earliest
\* target that has it, and the keys explicit in M keep their values.
C9_MergeSeqEarliestWins ==
    (op = "resolve" /\ OneMergeSeq(pre, refs)) =>
        /\ \A e \in Range(Children(pre, 0)) :
              key(pre, e) # MERGE =>
                  /\ find_child(Tree, 0, key(pre, e)) # NONE
                  /\ val(Tree, find_child(Tree, 0, key(pre, e))) = val(pre, e)
        /\ \A k \in RefRecs(refs) :
              \A c \in Range(Children(pre, refs[k].target)) :
                  key(pre, c) \notin KeysOf(pre, 0) =>
                      /\ find_child(Tree, 0, key(pre, c)) # NONE
                      /\ val(Tree, find_child(Tree, 0, key(pre, c)))
                            = FirstTargetVal(pre, refs, key(pre, c))

\* the children the claim expects in the destination: an entry at or before
\* the cursor whose key a source child has takes that child's value, the
\* other entries stay, and the source children with a new key follow
NoRepExpected(T, src, dst, after) ==
    LET d == Entries(T, dst)
        s == Entries(T, src)
        after_pos == IF after = NONE THEN 0
                     ELSE PosIn(Children(T, dst), after, 1)
        kept == [k \in DOMAIN d |->
                    IF k <= after_pos /\ \E j \in DOMAIN s : s[j].key = d[k].key
                    THEN s[CHOOSE j \in DOMAIN s : s[j].key = d[k].key]
                    ELSE d[k]]
        added == SelectSeq(s, LAMBDA e : e.key \notin KeysOf(T, dst))
    IN  kept \o added

\* C10: duplicate_children_no_rep(src, dst, after) on a destination map
\* replaces the entries at or before the cursor whose key a source child has
\* by a duplicate of that child, leaves the entries after the cursor in
\* place, and adds the source children with a new key after them.
C10_NoRepAtCursor ==
    (/\ op = "no_rep"
     /\ DistinctKeys(pre, args[1])
     /\ DistinctKeys(pre, args[2])) =>
        Entries(Tree, args[2]) = NoRepExpected(pre, args[1], args[2], args[3])


-----------------------------------------------------------------------------
(* The node store observed across a growing reserve *)

\* reserve(cap), cap > m_cap, on a tree that has its root; the tree before
\* the call is kept
Grow ==
    \E c \in 1..MaxCap :
        /\ c > m_cap
        /\ m_size >= 1
        /\ HierOK(Tree)
        /\ Set(reserve(Tree, c))
        /\ op' = "grow"
        /\ args' = <<c>>
        /\ pre' = Tree
        /\ refs' = <<>>

\* claim, release, reorder and reserve
NextStore ==
    \/ ReserveFirst
    \/ InsertChild
    \/ ToMap
    \/ ToKeyVal
    \/ ToKeyMap
    \/ Remove
    \/ Reorder
    \/ Grow

SpecStore == Init /\ [][NextStore]_vars

\* C12: a reserve(cap) that grows the node capacity leaves the record of
\* every live node (type, key, val, parent, children and siblings, under the
\* same handle) as it was, and stores nowhere but in free or new slots.
C12_GrowKeepsLiveNodes ==
    op = "grow" =>
        /\ \A n \in Live(pre) : InBuf(Tree, n) /\ m_buf[n] = pre.buf[n]
        /\ oob = pre.oob


-----------------------------------------------------------------------------
(* duplicate observed: the tree before the call and the handle returned *)

\* duplicate(node, parent, after), the parent outside the node's subtree
Dup ==
    /\ m_cap <= MaxCap
    /\ HierOK(Tree)
    /\ \E n \in Live(Tree) \ {0} : \E p \in Live(Tree) \ Subtree(Tree, n) :
          \E a \in Afters(Tree, p) : \E d \in {duplicate(Tree, n, p, a)} :
            /\ is_map(Tree, p)
            /\ d.t.cap <= DupCap
            /\ Set(d.t)
            /\ op' = "dup"
            /\ args' = <<n, p, a, d.id>>
            /\ pre' = Tree
            /\ refs' = <<>>

\* dup = duplicate(node, parent, after); remove(dup)
DupRemove ==
    /\ m_cap <= MaxCap
    /\ HierOK(Tree)
    /\ \E n \in Live(Tree) \ {0} : \E p \in Live(Tree) \ Subtree(Tree, n) :
          \E a \in Afters(Tree, p) : \E d \in {duplicate(Tree, n, p, a)} :
            /\ is_map(Tree, p)
            /\ d.t.cap <= DupCap
            /\ Set(remove(d.t, d.id))
            /\ op' = "dup_remove"
            /\ args' = <<n, p, a, d.id>>
            /\ pre' = Tree
            /\ refs' = <<>>

NextDup ==
    \/ ReserveFirst \/ InsertChild \/ ToMap \/ ToKeyVal \/ ToKeyMap
    \/ Remove \/ Grow \/ Dup \/ DupRemove

SpecDup == Init /\ [][NextDup]_vars

\* (depth below n, type, key, val) along the walk of the subtree of n
SubContent(T, n) ==
    LET w == WalkF(T, n, 0, T.cap + 1)
    IN  [k \in DOMAIN w |->
            [depth |-> w[k].depth, type |-> type(T, w[k].id),
             key |-> T.buf[w[k].id].key, val |-> T.buf[w[k].id].val]]

\* the sequence s with x put right after the element a, first when a is NONE
InsertAfter(s, a, x) ==
    LET k == IF a = NONE THEN 0 ELSE PosIn(s, a, 1)
    IN  SubSeq(s, 1, k) \o <<x>> \o SubSeq(s, k + 1, Len(s))

\* C15: duplicate(node, parent, after), the parent outside node's subtree,
\* returns a new handle whose subtree has the pre-order (depth, type, key,
\* val) of node's subtree, placed right after "after" among the parent's
\* children (first when after is NONE); size grows by the size of node's
\* subtree and every node there was keeps its handle, props and place.
C15_DuplicateCopiesSubtree ==
    op = "dup" =>
        LET node == args[1]
            p == args[2]
            after == args[3]
            dup == args[4]
            new == Live(Tree) \ Live(pre)
        IN  /\ dup \in new
            /\ HierOK(Tree)
            /\ SubContent(Tree, dup) = SubContent(pre, node)
            /\ new = Range(WalkIds(Tree)) \cap
                       {w.id : w \in Range(WalkF(Tree, dup, 0, m_cap + 1))}
            /\ Children(Tree, p) = InsertAfter(Children(pre, p), after, dup)
            /\ m_size = pre.size + Len(SubContent(pre, node))
            /\ \A n \in Live(pre) :
                  /\ n \in Live(Tree)
                  /\ type(Tree, n) = type(pre, n)
                  /\ m_buf[n].key = pre.buf[n].key
                  /\ m_buf[n].val = pre.buf[n].val
                  /\ parent(Tree, n) = parent(pre, n)
                  /\ SelectSeq(Children(Tree, n), LAMBDA c : c \notin new)
                        = Children(pre, n)

\* a node with a child was duplicated after a sibling
C15_Witness ==
    /\ op = "dup"
    /\ args[3] # NONE
    /\ first_child(pre, args[1]) # NONE

\* C16: dup = duplicate(node, p, a) followed by remove(dup) leaves the
\* same handles live, with the same type, key, val, parent, children and
\* sibling links, and the same size.
C16_DuplicateRemoveIsIdentity ==
    op = "dup_remove" =>
        /\ Live(Tree) = Live(pre)
        /\ \A n \in Live(pre) : m_buf[n] = pre.buf[n]
        /\ m_size = pre.size

\* a node with a child was duplicated after a sibling and the copy removed
C16_Witness ==
    /\ op = "dup_remove"
    /\ args[3] # NONE
    /\ first_child(pre, args[1]) # NONE


-----------------------------------------------------------------------------
(* clear *)

\* C19: after clear() on a tree of capacity >= 1, whatever its state was,
\* size is 1, handle 0 is the root with no parent and no children, every
\* other slot has type NOTYPE and the walk of the free list from
\* m_free_head visits exactly the slots 1..m_cap-1.
C19_ClearResets ==
    op = "clear" =>
        /\ m_size = 1
        /\ Live(Tree) = {0}
        /\ ~IsFree(Tree, 0)
        /\ parent(Tree, 0) = NONE
        /\ first_child(Tree, 0) = NONE
        /\ last_child(Tree, 0) = NONE
        /\ \A i \in 1..(m_cap - 1) : type(Tree, i) = NOTYPE
        /\ Len(FreeWalk(Tree)) = m_cap - 1
        /\ Range(FreeWalk(Tree)) = 1..(m_cap - 1)

\* a tree of three or more typed nodes was cleared
C19_Witness ==
    /\ op = "clear"
    /\ pre.size >= 3
    /\ \E n \in Live(pre) \ {0} : type(pre, n) # NOTYPE


-----------------------------------------------------------------------------
(* NOTYPE and the free list *)

\* C20: in every reachable state a slot has type NOTYPE if and only if it
\* is on the free list: no claimed node, the root claimed by the first
\* reserve and a freshly claimed node included, has type NOTYPE, and no
\* slot of the free list has another type.
C20_NoTypeIffFree ==
    \A i \in DOMAIN m_buf :
        type(Tree, i) = NOTYPE <=> i \in Range(FreeWalk(Tree))


-----------------------------------------------------------------------------
(* size and the nodes reachable from the root *)

\* C18: after any sequence of duplicate, duplicate_children, move, remove,
\* reorder and resolve on a tree built by claim and attach, m_size is the
\* number of nodes reachable from the root, the root counted, and none of
\* the reachable nodes is a slot of the free list.
C18_SizeIsReachable ==
    m_size >= 1 =>
        /\ m_size = Cardinality(Live(Tree))
        /\ \A n \in Live(Tree) : n \notin Range(FreeWalk(Tree))


-----------------------------------------------------------------------------
(* duplicate, step by step: frames is the stack of the calls of duplicate  *)
(* (and of the duplicate_children loop below them) that have not returned.  *)
(* A frame [node, dest, i, last] is a loop over the children of node, at    *)
(* child i, that copies them into dest after last; a frame of duplicate     *)
(* returns dest, its copy.                                                  *)

Frame(node, dest, i, last) ==
    [node |-> node, dest |-> dest, i |-> i, last |-> last]

Top == frames[Len(frames)]

\* lines 712-715: claim the copy, copy the props, attach it
duplicate_head(T, node, iparent, after) ==
    LET c == _claim(T)
    IN  [t |-> _set_hierarchy(_copy_props(c.t, c.id, node), c.id, iparent,
                              after),
         id |-> c.id]

Called(name, a) ==
    /\ op' = name
    /\ args' = a
    /\ pre' = Tree
    /\ refs' = <<>>

\* the nodes a call that returns claims are those of the subtree it copies
Room(n, own) == m_size + Cardinality(Subtree(Tree, n)) - own <= TermSize

\* duplicate(node, parent, after), any parent, lines 706-716
DuplicateCall ==
    /\ frames = <<>>
    /\ m_size <= TermTree
    /\ HierOK(Tree)
    /\ \E n \in Live(Tree) \ {0} : \E p \in Live(Tree) :
          \E a \in Afters(Tree, p) : \E d \in {duplicate_head(Tree, n, p, a)} :
            /\ is_map(Tree, p)
            /\ Room(n, 0)
            /\ SetTree(d.t)
            /\ frames' = <<Frame(n, d.id, first_child(d.t, n), NONE)>>
            /\ Called("duplicate", <<n, p, a>>)

\* duplicate_children(node, parent, after), any parent, lines 747-754
DuplicateChildrenCall ==
    /\ frames = <<>>
    /\ m_size <= TermTree
    /\ HierOK(Tree)
    /\ \E n \in Live(Tree) : \E p \in Live(Tree) : \E a \in Afters(Tree, p) :
          /\ is_map(Tree, p)
          /\ first_child(Tree, n) # NONE
          /\ Room(n, 1)
          /\ SetTree(Tree)
          /\ frames' = <<Frame(n, p, first_child(Tree, n), a)>>
          /\ Called("duplicate_children", <<n, p, a>>)

\* resolve, line 1044: duplicate_contents(rd.target, rd.node) for an alias
\* node that is a value; its target is an anchored node before it in the
\* document, a container here
ResolveAliasCall ==
    /\ frames = <<>>
    /\ m_size <= TermTree
    /\ HierOK(Tree)
    /\ \E t \in Live(Tree) \ {0} : \E w \in Live(Tree) \ {0} :
          \E T1 \in {_copy_props_wo_key(Tree, w, t)} :
            /\ first_child(Tree, t) # NONE
            /\ first_child(Tree, w) = NONE
            /\ type(Tree, w) # NOTYPE
            /\ PosIn(Preorder(Tree, 0), t, 1) < PosIn(Preorder(Tree, 0), w, 1)
            /\ Room(t, 1)
            /\ SetTree(T1)
            /\ frames' = <<Frame(t, w, first_child(T1, t), NONE)>>
            /\ Called("resolve", <<t, w, NONE>>)

\* lines 718-721 and 751-754: the loop calls duplicate(i, dest, last)
DuplicateDescend ==
    /\ frames # <<>>
    /\ Top.i # NONE
    /\ m_size < TermSize
    /\ \E d \in {duplicate_head(Tree, Top.i, Top.dest, Top.last)} :
          /\ SetTree(d.t)
          /\ frames' = Append(frames,
                              Frame(Top.i, d.id, first_child(d.t, Top.i), NONE))
    /\ UNCHANGED <<op, args, pre, refs>>

\* lines 723 and 756: the loop is over, the call returns; the loop of its
\* caller stores the copy in last and moves on to next_sibling(i)
DuplicateReturn ==
    /\ frames # <<>>
    /\ Top.i = NONE
    /\ frames' =
          IF Len(frames) = 1 THEN <<>>
          ELSE LET g == frames[Len(frames) - 1]
               IN  SubSeq(frames, 1, Len(frames) - 2) \o
                   <<Frame(g.node, g.dest, next_sibling(Tree, g.i), Top.dest)>>
    /\ UNCHANGED <<m_buf, m_cap, m_size, m_free_head, m_free_tail, oob, op,
                   args, pre, refs, objs, heap, ub>>

\* the call has claimed all the memory there is and goes on claiming
DuplicateExhausts ==
    /\ frames # <<>>
    /\ Top.i # NONE
    /\ m_size >= TermSize
    /\ op # "exhausted"
    /\ op' = "exhausted"
    /\ UNCHANGED <<m_buf, m_cap, m_size, m_free_head, m_free_tail, oob, args,
                   pre, refs, frames, objs, heap, ub>>

DuplicateStep == DuplicateDescend \/ DuplicateReturn \/ DuplicateExhausts

NextTerm ==
    \/ ReserveFirst \/ InsertChild \/ ToMap \/ ToKeyVal \/ ToKeyMap
    \/ DuplicateCall \/ DuplicateChildrenCall \/ ResolveAliasCall
    \/ DuplicateDescend \/ DuplicateReturn \/ DuplicateExhausts

\* a call that has begun runs on: the operations are synchronous
SpecTerm == Init /\ [][NextTerm]_vars /\ WF_vars(DuplicateStep)

\* C17: every operation terminates on every finite tree; resolve,
\* duplicate and duplicate_children return after finitely many steps, also
\* when the alias lies in the subtree of its anchor or the destination
\* parent lies in the subtree that is duplicated.
C17_EveryCallReturns == (frames # <<>>) ~> (frames = <<>>)


-----------------------------------------------------------------------------
(* Tree objects and the allocator. An object is                             *)
(*    [life, ptr, T, sp, arena, pos, garbage]                               *)
(* ptr is m_buf, T holds m_cap, m_size, m_free_head, m_free_tail and the    *)
(* records of the node buffer, sp the spans of each record, arena and pos   *)
(* are m_arena and m_arena_pos; garbage says that records of the buffer     *)
(* were never written. heap is [live, count, twice, bad]: live maps the     *)
(* pointer of each buffer that is allocated and not freed to [kind, n,      *)
(* bytes], n the size it was allocated with; count is the number of         *)
(* allocations so far (the pointers are 1..count, none is handed out        *)
(* twice); twice says that a pointer with no live buffer was freed, bad     *)
(* that a free named a size other than n. ub records undefined behaviour    *)
(* (a copy from or a store through nullptr, a copy past the end of a        *)
(* buffer): the program has crashed.                                        *)

World == [objs |-> objs, heap |-> heap, ub |-> ub]

Crash(w) == [w EXCEPT !.ub = TRUE]

\* the bytes copy_to_arena appends, by their place in the arena
ArenaChars == <<"a", "b", "c">>

\* m_alloc.allocate(n)
Allocated(h, kind, n, bytes) ==
    [h EXCEPT
       !.count = @ + 1,
       !.live = [p \in DOMAIN h.live \cup {h.count + 1} |->
                    IF p = h.count + 1
                    THEN [kind |-> kind, n |-> n, bytes |-> bytes]
                    ELSE h.live[p]]]

\* m_alloc.free(ptr, n)
Freed(h, ptr, n) ==
    IF ptr \notin DOMAIN h.live THEN [h EXCEPT !.twice = TRUE]
    ELSE [h EXCEPT
            !.bad = @ \/ h.live[ptr].n # n,
            !.live = [p \in DOMAIN h.live \ {ptr} |-> h.live[p]]]

\* Tree::Tree(Allocator)
Fresh == [Unborn EXCEPT !.life = "live"]

\* memset(this, 0, sizeof(*this)), line 133: m_free_head and m_free_tail
\* become 0
Zeroed ==
    [Unborn EXCEPT !.life = "live",
                   !.T = [EmptyTree EXCEPT !.head = 0, !.tail = 0]]

\* Tree::_free
_free(w, o) ==
    LET x == w.objs[o]
        h1 == IF x.ptr # 0 THEN Freed(w.heap, x.ptr, x.T.cap) ELSE w.heap
        h2 == IF x.arena.str # 0 THEN Freed(h1, x.arena.str, x.arena.len)
              ELSE h1
    IN  [w EXCEPT !.heap = h2, !.objs[o] = Zeroed]

in_arena(x, sp) == sp.str # 0 /\ sp.str = x.arena.str

_relocated(sp, next_arena) == [sp EXCEPT !.str = next_arena]

\* the spans Tree::_relocate looks at, lines 161-164
RelocatedFields == {"key.scalar", "key.tag", "val.scalar", "val.tag"}

\* Tree::_relocate, the loop over the nodes
_relocate(x, next_arena) ==
    [n \in DOMAIN x.sp |->
        [f \in SpanFields |->
            IF f \in RelocatedFields /\ in_arena(x, x.sp[n][f])
            THEN _relocated(x.sp[n][f], next_arena)
            ELSE x.sp[n][f]]]

\* Tree::_relocate, line 158: the bytes of a new arena of n chars
ArenaCopy(h, x, n) ==
    [i \in 0..(n - 1) |->
        IF x.arena.str # 0 /\ i < x.pos THEN h.live[x.arena.str].bytes[i]
        ELSE "?"]

\* Tree::_copy, lines 138-140; z: allocate(0) returns a buffer
_copy_nodes(w, o, s, z) ==
    LET that == w.objs[s]
    IN  IF that.T.cap = 0 /\ ~z
        THEN [w EXCEPT !.objs[o] = [that EXCEPT !.life = "live", !.ptr = 0]]
        ELSE [w EXCEPT
                !.heap = Allocated(w.heap, "nodes", that.T.cap, <<>>),
                !.objs[o] = [that EXCEPT !.life = "live",
                                         !.ptr = w.heap.count + 1]]

\* Tree::_copy, lines 141-146
_copy_arena(w, o) ==
    LET x == w.objs[o]
        id == w.heap.count + 1
    IN  IF x.arena.len = 0 THEN w
        ELSE [w EXCEPT
                !.heap = Allocated(w.heap, "chars", x.arena.len,
                                   ArenaCopy(w.heap, x, x.arena.len)),
                !.objs[o] = [x EXCEPT
                               !.sp = _relocate(x, id),
                               !.arena = [str |-> id, len |-> x.arena.len]]]

\* Tree::_copy
_copy(w, o, s, z) ==
    LET that == w.objs[s]
    IN  IF that.ptr = 0 /\ that.T.cap > 0 THEN Crash(w)
        ELSE IF that.arena.len # 0 /\ that.pos > that.arena.len THEN Crash(w)
        ELSE _copy_arena(_copy_nodes(w, o, s, z), o)

\* A move that leaves the source holding its buffers as well
_move_keeps_source(w, o, s) ==
    [w EXCEPT !.objs[o] = w.objs[s]]

\* Tree::_move
_move(w, o, s) ==
    LET that == w.objs[s]
    IN  [w EXCEPT !.objs[o] = that,
                  !.objs[s] = [that EXCEPT !.ptr = 0, !.arena = NoArena]]

\* Tree::reserve, lines 171-199, with the buffers
reserve_nodes(w, o, cap) ==
    LET x == w.objs[o]
        h1 == Allocated(w.heap, "nodes", cap, <<>>)
        h2 == IF x.ptr # 0 THEN Freed(h1, x.ptr, x.T.cap) ELSE h1
    IN  IF w.ub \/ cap <= x.T.cap THEN w
        ELSE IF x.T.head # NONE /\ x.ptr = 0 THEN Crash(w)
        ELSE [w EXCEPT
                !.heap = h2,
                !.objs[o] =
                    [x EXCEPT
                       !.T = reserve(x.T, cap),
                       !.ptr = h1.count,
                       !.sp = [n \in 0..(cap - 1) |->
                                 IF n < x.T.cap /\ x.ptr # 0 THEN x.sp[n]
                                 ELSE NoSpans],
                       !.garbage = @ \/ (x.ptr = 0 /\ x.T.cap > 0)]]

\* Tree::reserve, lines 201-213
reserve_arena(w, o, arena_cap) ==
    LET x == w.objs[o]
        id == w.heap.count + 1
        h1 == Allocated(w.heap, "chars", arena_cap,
                        ArenaCopy(w.heap, x, arena_cap))
        h2 == IF x.arena.str # 0 THEN Freed(h1, x.arena.str, x.arena.len)
              ELSE h1
    IN  IF w.ub \/ arena_cap <= x.arena.len THEN w
        ELSE IF x.arena.str # 0 /\
                (x.pos > x.arena.len \/ (x.ptr = 0 /\ x.T.cap > 0))
        THEN Crash(w)
        ELSE [w EXCEPT
                !.heap = h2,
                !.objs[o] =
                    [x EXCEPT
                       !.sp = IF x.arena.str # 0 THEN _relocate(x, id)
                              ELSE x.sp,
                       !.arena = [str |-> id, len |-> arena_cap]]]

\* Tree::reserve(cap, arena_cap)
reserve_both(w, o, cap, arena_cap) ==
    reserve_arena(reserve_nodes(w, o, cap), o, arena_cap)

\* Tree::_claim, lines 310-326, on an object
claim_pop(w, o) ==
    IF w.ub THEN w
    ELSE IF ~InBuf(w.objs[o].T, w.objs[o].T.head) THEN Crash(w)
    ELSE LET x == w.objs[o]
             c == _claim_pop(x.T)
         IN  [w EXCEPT !.objs[o] =
                [x EXCEPT !.T = c.t, !.sp[c.id] = NoSpans]]

\* Tree::_claim on an object
claim(w, o) ==
    LET x == w.objs[o]
    IN  IF x.T.head = NONE \/ x.ptr = 0
        THEN claim_pop(reserve_nodes(w, o, GrownCap(x.T)), o)
        ELSE claim_pop(w, o)

\* the spans of a node's key and val: scalar, tag, anchor
SpanKinds == {"scalar", "tag", "anchor"}

\* copy_to_arena of one char; the span is stored in the node n as the k
\* (scalar, tag or anchor) of both its key and its val, as for "x: x"
copy_to_arena(w, o, n, k) ==
    LET x == w.objs[o]
        sp == [str |-> x.arena.str, off |-> x.pos, len |-> 1]
    IN  [w EXCEPT
           !.heap.live[x.arena.str].bytes[x.pos] = ArenaChars[x.pos + 1],
           !.objs[o] =
               [x EXCEPT
                  !.sp[n] = [f \in SpanFields |->
                               IF f \in {"key." \o k, "val." \o k} THEN sp
                               ELSE @[f]],
                  !.pos = @ + 1]]

\* the bytes of the buffer at a pointer, as a sequence; none when the
\* pointer is nullptr or the buffer was freed
BytesOf(h, ptr) ==
    IF ptr \in DOMAIN h.live
    THEN [k \in 1..h.live[ptr].n |-> h.live[ptr].bytes[k - 1]]
    ELSE <<>>

\* the source of a reserve or a copy and the bytes of its arena, kept for
\* the before/after claims
Before(s) ==
    [src |-> objs[s], bytes |-> BytesOf(heap, objs[s].arena.str)]

Commit(name, a, w) ==
    /\ ~ub
    /\ w.heap.count <= MaxAllocs
    /\ \A o \in Objs : w.objs[o].T.cap <= MemCap
    /\ objs' = w.objs
    /\ heap' = w.heap
    /\ ub' = w.ub
    /\ op' = name
    /\ args' = a
    /\ pre' = IF name \in {"reserve", "copy"} /\ objs[a[2]].pos > 0
              THEN Before(a[2]) ELSE NoPre
    /\ UNCHANGED <<m_buf, m_cap, m_size, m_free_head, m_free_tail, oob, refs,
                   frames>>

Is(o, life) == objs[o].life = life

\* Tree t;
MConstruct ==
    \E o \in Objs :
        /\ Is(o, "none")
        /\ Commit("construct", <<o>>, [World EXCEPT !.objs[o] = Fresh])

\* t.reserve(cap, arena_cap)
MReserve ==
    \E o \in Objs : \E cap \in 0..MemCap : \E arena_cap \in 0..MemArena :
        /\ Is(o, "live")
        /\ cap > objs[o].T.cap \/ arena_cap > objs[o].arena.len
        /\ Commit("reserve", <<o, o>>, reserve_both(World, o, cap, arena_cap))

\* t._claim()
MClaim ==
    \E o \in Objs :
        /\ Is(o, "live")
        /\ Commit("claim", <<o>>, claim(World, o))

\* a scalar, tag or anchor of a claimed node is copied to the arena
MCopyToArena ==
    \E o \in Objs : \E n \in DOMAIN objs[o].sp : \E k \in SpanKinds :
        /\ Is(o, "live")
        /\ objs[o].ptr # 0
        /\ ~objs[o].garbage
        /\ n \notin Range(FreeWalk(objs[o].T))
        /\ objs[o].arena.str # 0
        /\ objs[o].pos < objs[o].arena.len
        /\ objs[o].sp[n]["key." \o k] = NullSpan
        /\ Commit("copy_to_arena", <<o>>, copy_to_arena(World, o, n, k))

\* Tree t(s);
MCopyConstruct ==
    \E o \in Objs : \E s \in Objs : \E z \in BOOLEAN :
        /\ Is(o, "none")
        /\ Is(s, "live")
        /\ Commit("copy", <<o, s>>,
                  _copy([World EXCEPT !.objs[o] = Fresh], o, s, z))

\* t = s;  (t = t included)
MCopyAssign ==
    \E o \in Objs : \E s \in Objs : \E z \in BOOLEAN :
        /\ Is(o, "live")
        /\ Is(s, "live")
        /\ Commit("copy", <<o, s>>, _copy(_free(World, o), o, s, z))

\* Tree t(std::move(s));
MMoveConstruct ==
    \E o \in Objs : \E s \in Objs :
        /\ Is(o, "none")
        /\ Is(s, "live")
        /\ Commit("move", <<o, s>>,
                  _move([World EXCEPT !.objs[o] = Fresh], o, s))

\* t = std::move(s);  (t = std::move(t) included)
MMoveAssign ==
    \E o \in Objs : \E s \in Objs :
        /\ Is(o, "live")
        /\ Is(s, "live")
        /\ Commit("move", <<o, s>>, _move(_free(World, o), o, s))

\* Tree::~Tree
MDestroy ==
    \E o \in Objs : \E w \in {_free(World, o)} :
        /\ Is(o, "live")
        /\ Commit("destroy", <<o>>, [w EXCEPT !.objs[o] = Unborn])

\* the buffers of the trees of a program
NextMem ==
    \/ MConstruct \/ MReserve \/ MClaim
    \/ MCopyConstruct \/ MCopyAssign \/ MMoveConstruct \/ MMoveAssign
    \/ MDestroy

SpecMem == Init /\ [][NextMem]_vars

\* the spans of the nodes of trees that are grown and copied
NextArena ==
    \/ MConstruct \/ MReserve \/ MCopyToArena
    \/ MCopyConstruct \/ MCopyAssign \/ MDestroy

SpecArena == Init /\ [][NextArena]_vars

\* the bytes a span reads in a buffer
ReadIn(bytes, sp) ==
    IF sp.off + sp.len > Len(bytes) THEN <<"freed">>
    ELSE SubSeq(bytes, sp.off + 1, sp.off + sp.len)

\* the bytes a span reads
Read(h, sp) == ReadIn(BytesOf(h, sp.str), sp)

\* C11: after reserve has grown the arena and after a tree was copied,
\* every span of every node that was in the old arena (scalar, tag and
\* anchor of key and val) is in the new arena at the same offset with the
\* same length and reads the same bytes, and no span is left in the old
\* arena.
C11_SpansFollowTheArena ==
    (/\ ~ub
     /\ pre # NoPre
     /\ op = "reserve" \/ (op = "copy" /\ args[1] # args[2])) =>
        LET x == objs[args[1]]
            src == pre.src
        IN  (src.arena.str # 0 /\ x.arena.str # src.arena.str) =>
                \A n \in DOMAIN src.sp : \A f \in SpanFields :
                    /\ in_arena(src, src.sp[n][f]) =>
                          /\ x.sp[n][f] = _relocated(src.sp[n][f], x.arena.str)
                          /\ Read(heap, x.sp[n][f])
                                = ReadIn(pre.bytes, src.sp[n][f])
                    /\ x.sp[n][f].str # src.arena.str

\* C13: after a move construction or a move assignment from S, S is empty:
\* size 0, capacity 0, free_head and free_tail NONE, arena position 0, no
\* buffer.
C13_MovedFromIsEmpty ==
    (op = "move" /\ args[1] # args[2]) =>
        LET S == objs[args[2]]
        IN  /\ S.T.size = 0
            /\ S.T.cap = 0
            /\ S.T.head = NONE
            /\ S.T.tail = NONE
            /\ S.pos = 0
            /\ S.ptr = 0
            /\ S.arena = NoArena

\* C14: over construction, reserve, claim, copy and move construction and
\* assignment and destruction, no buffer of the allocator is freed twice or
\* with a size other than the one it was allocated with, and when every
\* tree is destroyed every buffer has been freed.
C14_AllocFreePaired ==
    /\ ~heap.twice
    /\ ~heap.bad
    /\ (\A o \in Objs : Is(o, "none")) => DOMAIN heap.live = {}

\* every tree is destroyed, after copies and moves of trees with buffers
C14_Witness ==
    /\ \A o \in Objs : Is(o, "none")
    /\ heap.count = MaxAllocs


-----------------------------------------------------------------------------
(* The free list as a doubly-linked list *)

\* C21: in every reachable state the free list is a well-formed
\* doubly-linked list over free slots only: the slot at free_head has no
\* prev_sibling, each slot of the next_sibling walk is the prev_sibling of
\* the slot after it, and no sibling field of a free slot refers to a live
\* node.
C21_FreeListDoublyLinked ==
    LET fw == FreeWalk(Tree)
    IN  /\ fw # <<>> => prev_sibling(Tree, fw[1]) = NONE
        /\ \A k \in 1..(Len(fw) - 1) : prev_sibling(Tree, fw[k + 1]) = fw[k]
        /\ \A k \in DOMAIN fw :
              /\ prev_sibling(Tree, fw[k]) \notin Live(Tree)
              /\ next_sibling(Tree, fw[k]) \notin Live(Tree)


\* C22: in every reachable state free_head and free_tail are both NONE
\* exactly when the free list is empty; otherwise free_head is the first and
\* free_tail the last slot of the free list: free_tail is an index below the
\* capacity, of a free slot whose next_sibling is NONE.
C22_HeadAndTailBracket ==
    LET fw == FreeWalk(Tree)
    IN  /\ (m_free_head = NONE /\ m_free_tail = NONE) <=> fw = <<>>
        /\ fw # <<>> =>
              /\ m_free_head = fw[1]
              /\ m_free_tail = fw[Len(fw)]
              /\ m_free_tail < m_cap
              /\ next_sibling(Tree, m_free_tail) = NONE


-----------------------------------------------------------------------------
(* _swap on its own *)

\* _swap(a, b) on two non-root slots of a well-formed tree of typed nodes,
\* not both free; the tree before the call is kept
Swap ==
    /\ m_size >= 1
    /\ HierOK(Tree)
    /\ Typed(Tree)
    /\ \E a \in 1..(m_cap - 1) : \E b \in 1..(m_cap - 1) :
          /\ a # b
          /\ ~(IsFree(Tree, a) /\ IsFree(Tree, b))
          /\ Set(_swap(Tree, a, b))
          /\ op' = "swap"
          /\ args' = <<a, b>>
          /\ pre' = Tree
          /\ refs' = <<>>

\* building and taking apart a tree, and _swap
NextSwap ==
    \/ ReserveFirst
    \/ InsertChild
    \/ ToMap
    \/ ToKeyVal
    \/ ToKeyMap
    \/ Remove
    \/ Move
    \/ Swap

SpecSwap == Init /\ [][NextSwap]_vars

\* the handle of node i once a and b have changed places
Swapped(a, b, i) == IF i = a THEN b ELSE IF i = b THEN a ELSE i

\* C23: for distinct non-root slots a, b of a well-formed tree, not both
\* free, _swap(a, b) yields a tree that satisfies the hierarchy invariants
\* again and in which the node formerly at a is at b and vice versa, in
\* every relative position of the two: the walk from the root meets the same
\* nodes with the same contents, under the handles with a and b exchanged.
C23_SwapKeepsHierarchy ==
    op = "swap" =>
        /\ HierOK(Tree)
        /\ WalkIds(Tree) =
              [k \in DOMAIN Walk(pre) |->
                  Swapped(args[1], args[2], Walk(pre)[k].id)]
        /\ WalkContent(Tree) = WalkContent(pre)


-----------------------------------------------------------------------------
(* Pass 1 of the resolver *)

\* the node n carries a key or value anchor, is a key or value alias, or
\* has the key <<
RefOrAnchor(T, n) ==
    \/ has_key_anchor(T, n)
    \/ has_val_anchor(T, n)
    \/ is_key_ref(T, n)
    \/ is_val_ref(T, n)
    \/ (has_key(T, n) /\ key(T, n) = MERGE)

\* the nodes of the sequence po that satisfy RefOrAnchor, in the same order
RECURSIVE RefOrAnchorOf(_, _)
RefOrAnchorOf(T, po) ==
    IF po = <<>> THEN <<>>
    ELSE (IF RefOrAnchor(T, Head(po)) THEN <<Head(po)>> ELSE <<>>)
         \o RefOrAnchorOf(T, Tail(po))

\* C24: pass 1 of the resolver records each node of the document exactly
\* once if and only if it carries a key or value anchor, or is a key or value
\* alias, or has the key <<, and not at all otherwise; the records appear
\* in pre-order.
C24_OneRecordPerNode ==
    op \in {"resolve", "abort"} =>
        /\ \A n \in Range(Preorder(pre, 0)) :
              Cardinality({k \in DOMAIN refs : refs[k].node = n})
                  = IF RefOrAnchor(pre, n) THEN 1 ELSE 0
        /\ [k \in DOMAIN refs |-> refs[k].node]
              = RefOrAnchorOf(pre, Preorder(pre, 0))


-----------------------------------------------------------------------------
(* Aliases without an anchor *)

\* the position of node n in the pre-order walk of T from the root
PreorderPos(T, n) ==
    CHOOSE k \in DOMAIN Preorder(T, 0) : Preorder(T, 0)[k] = n

\* the alias node n names an anchor that no node before it in pre-order
\* carries
Dangling(T, n) ==
    /\ is_val_ref(T, n)
    /\ \A m \in Range(Preorder(T, 0)) :
          PreorderPos(T, m) < PreorderPos(T, n)
              => ~has_anchor(T, m, sub1(val(T, n)))

\* C25: resolve() on a tree with an alias whose name matches no anchor
\* earlier in pre-order (an anchor that only appears later included) ends in
\* the abort state, and the tree is then as it was before the call: no node
\* has been duplicated, moved or removed.
C25_DanglingAliasAborts ==
    (/\ op \in {"resolve", "abort"}
     /\ \E n \in Range(Preorder(pre, 0)) : Dangling(pre, n)) =>
        /\ op = "abort"
        /\ Tree = pre

\* resolve() was called with an alias whose anchor only appears later
C25_Witness ==
    /\ op = "abort"
    /\ \E n \in Range(Preorder(pre, 0)) :
          /\ Dangling(pre, n)
          /\ \E m \in Range(Preorder(pre, 0)) :
                /\ PreorderPos(pre, m) > PreorderPos(pre, n)
                /\ has_anchor(pre, m, sub1(val(pre, n)))


-----------------------------------------------------------------------------
(* The targets of the aliases during pass 3 *)

\* Tree(node_capacity, arena_capacity) for a document without sequences
KeysBegin ==
    /\ op = "init"
    /\ DocStep("parse_keys", to_map(reserve(Tree, DocCap), 0))

NextKeys ==
    \/ KeysBegin
    \/ ParseKeyVal
    \/ ParseAlias
    \/ ParseMap
    \/ Resolve

SpecKeys == Init /\ [][NextKeys]_vars

\* the handle n denotes in T the node it denoted in T0: the node is
\* reachable from the root and has the type, key and value (tags and anchors
\* included) it had
Denotes(T0, T, n) ==
    /\ n \in Live(T)
    /\ type(T, n) = type(T0, n)
    /\ T.buf[n].key = T0.buf[n].key
    /\ T.buf[n].val = T0.buf[n].val

\* the loop of Tree::resolve (lines 1011-1046) over the records recs, from
\* the tree T: at each alias record, does its target denote the node it
\* denoted in T0?
RECURSIVE TargetsKept(_, _, _, _, _)
TargetsKeptNext(T0, r, recs) ==
    TargetsKept(T0, r.t, Tail(recs), r.ppr, r.ppra)

TargetsKept(T0, T, recs, prev_parent_ref, prev_parent_ref_after) ==
    IF recs = <<>> THEN TRUE
    ELSE IF Head(recs).is_ref /\ ~Denotes(T0, T, Head(recs).target)
    THEN FALSE
    ELSE TargetsKeptNext(T0,
                         resolve_insert_step(T, Head(recs), prev_parent_ref,
                                             prev_parent_ref_after),
                         recs)

\* C26: during pass 3 of resolve(), when an alias record is materialized its
\* target handle, computed in pass 2, still denotes the anchored node found
\* then: the node has not been released (by remove(rep) of an earlier merge,
\* for instance) and its slot has not been claimed again for another node.
C26_TargetsStayValid ==
    op = "resolve" => TargetsKept(pre, pre, refs, NONE, NONE)


-----------------------------------------------------------------------------
(* The keys of a map after duplicate_children_no_rep *)

\* "m: v" in a map of the root that has the key m itself
ParseSameKey ==
    /\ op = "parse_merge"
    /\ m_size <= MaxMergeDoc
    /\ \E p \in Open(Tree) \ {0} :
          /\ is_map(Tree, p)
          /\ DefKey \notin KeysOf(Tree, p)
          /\ LET c == append_child(Tree, p)
             IN  DocStep(op, to_keyval(c.t, c.id, DefKey, Stamp(c.id), {}))

\* documents of merges whose maps may repeat their own key, then
\* duplicate_children_no_rep or resolve
NextNoRep == NextMerge \/ ParseSameKey

SpecNoRep == Init /\ [][NextNoRep]_vars

\* C27: if the children of the destination map have pairwise distinct keys
\* and the children of the source have pairwise distinct keys, then after
\* duplicate_children_no_rep(src, dst, after), for any valid cursor, the
\* children of the destination still have pairwise distinct keys, and their
\* key set is the union of the two key sets.
C27_NoRepKeepsKeysDistinct ==
    (/\ op = "no_rep"
     /\ DistinctKeys(pre, args[1])
     /\ DistinctKeys(pre, args[2])) =>
        /\ DistinctKeys(Tree, args[2])
        /\ KeysOf(Tree, args[2]) = KeysOf(pre, args[2]) \cup KeysOf(pre, args[1])

=============================================================================
